---- MODULE Spec2Model ----
(***************************************************************************)
(* The document printer of oxc_formatter (formatter/printer/mod.rs) as a   *)
(* state machine.  One step of the machine is one iteration of the main    *)
(* loop of Printer::print_with_indent: pop an element, run print_element   *)
(* on it (with everything print_element calls: the fits measurer, the fill *)
(* and best-fitting algorithms, print_entry), flush the line suffixes when *)
(* the queue ran empty.                                                    *)
(*                                                                         *)
(* Texts and the output buffer are sequences of one-character strings.     *)
(*                                                                         *)
(* The module also holds the models of the other programs of the           *)
(* repository, each with its own variables and specification; the          *)
(* variables of a program keep their idle values under the specifications  *)
(* of the others.  NumberSpec: parse_int of oxc_parser (lexer/number.rs).  *)
(* KeywordSpec: lookup_keyword of oxc_parser (lexer/gperf_keywords.rs).    *)
(* LexerSpec: the Lexer of oxc_parser with its checkpoints (lexer/mod.rs). *)
(* RuntimeSpec: Runtime::resolve_modules of oxc_linter (runtime.rs).      *)
(***************************************************************************)
EXTENDS Integers, Sequences, FiniteSets, TLC

VARIABLES
    options,       \* PrinterOptions: print_width, indent_style, indent_width, line_ending
    document,      \* the Document handed to print (immutable)
    queue,         \* PrintQueue: stack of slices, the last one is the top
    stack,         \* PrintCallStack: frames [kind, mode], the first one is Root
    indent_stack,  \* PrintIndentStack: [stack, history, suffix]
    state,         \* PrinterState
    element,       \* the element the main loop popped last
    result,        \* "Running", or what print returned: Ok, Err or a panic
    measurements,  \* history: the FitsMeasurers created during the last step
    shortcuts,     \* history: the cached verdicts taken during the last step, each with
                   \* what the measurement it replaced would have said
    entry_modes,   \* history: the print modes print_entry was called with during the last
                   \* step, in the order of the calls
    literal,       \* number.rs: the arguments of parse_int and the build, or NoLiteral
    parsed,        \* number.rs: what parse_int returned, or NotParsed
    ident,         \* gperf_keywords.rs: the argument of lookup_keyword
    kind_found,    \* gperf_keywords.rs: the Kind lookup_keyword returned, or "NotLooked"
    lexer,         \* lexer/mod.rs: the Lexer
    checkpoint,    \* lexer/mod.rs: the LexerCheckpoint the caller holds
    returned,      \* lexer/mod.rs: the Token next_token returned last
    history,       \* history: the last call, the lexer at the checkpoint and before a peek
    files,             \* runtime.rs: self.paths and what the file system and the resolver answer
    graph,             \* runtime.rs: the locals of resolve_modules on the graph thread
    module_tasks,      \* runtime.rs: the spawned process_path tasks that have not run
    rx_process_output, \* runtime.rs: the channel from the module threads to the graph thread
    lint_tasks,        \* runtime.rs: the spawned on_module_to_lint tasks that have not run
    loaded_modules,    \* runtime.rs: ModuleRecord.loaded_modules of each path
    linted             \* history: the calls of on_module_to_lint, each with what it found

printer_vars ==
    <<options, document, queue, stack, indent_stack, state, element, result, measurements,
      shortcuts, entry_modes>>
number_vars == <<literal, parsed>>
keyword_vars == <<ident, kind_found>>
lexer_vars == <<lexer, checkpoint, returned, history>>
runtime_vars ==
    <<files, graph, module_tasks, rx_process_output, lint_tasks, loaded_modules, linted>>
other_vars == <<number_vars, keyword_vars, lexer_vars, runtime_vars>>
vars == <<printer_vars, other_vars>>

\* the programs that are not running under the printer's specification
NoLiteral == [s |-> <<>>, kind |-> "-", has_sep |-> FALSE, debug_assertions |-> FALSE]
NotParsed == [type |-> "NotParsed", value |-> <<>>]
NumberIdle == literal = NoLiteral /\ parsed = NotParsed
KeywordIdle == ident = <<>> /\ kind_found = "NotLooked"

\* Token::default(), Token::new_on_new_line()
TokenDefault == [kind |-> "Eof", start |-> 0, end |-> 0, is_on_new_line |-> FALSE]
TokenNewOnNewLine == [TokenDefault EXCEPT !.is_on_new_line = TRUE]

\* TriviaBuilder::default(): the two flags that read_next_token clears, and the spans
\* handed to add_irregular_whitespace
TriviaBuilderDefault ==
    [has_pure_comment |-> FALSE, has_no_side_effects_comment |-> FALSE,
     irregular_whitespaces |-> <<>>]

\* Lexer::new
NewLexer(source_text) ==
    [source |-> source_text, position |-> 0, token |-> TokenNewOnNewLine, errors |-> <<>>,
     context |-> "Regular", trivia_builder |-> TriviaBuilderDefault]

\* the caller holds no checkpoint, or <<checkpoint>>
NoCheckpoint == <<>>
NoToken == [kind |-> "-", start |-> 0, end |-> 0, is_on_new_line |-> FALSE]
NoHistory ==
    [op |-> "new", calls |-> 0, at_checkpoint |-> NewLexer(<<>>),
     before_peek |-> NewLexer(<<>>), peeked |-> NoToken, expected |-> NoToken]

LexerIdle ==
    /\ lexer = NewLexer(<<>>) /\ checkpoint = NoCheckpoint
    /\ returned = NoToken /\ history = NoHistory

NoFiles == [paths |-> <<>>]
RuntimeIdle ==
    /\ files = NoFiles
    /\ graph = [stage |-> "idle"]
    /\ module_tasks = {}
    /\ rx_process_output = <<>>
    /\ lint_tasks = {}
    /\ loaded_modules = <<>>
    /\ linted = <<>>
OthersIdle == NumberIdle /\ KeywordIdle /\ LexerIdle /\ RuntimeIdle

-----------------------------------------------------------------------------
(* Bounds of the model *)

\* texts "x", "xx", ... up to this many characters
MaxTextLen == 3
\* print widths 1..MaxPrintWidth
MaxPrintWidth == 10

-----------------------------------------------------------------------------
(* Small helpers *)

Last(s) == s[Len(s)]
Front(s) == SubSeq(s, 1, Len(s) - 1)
Min(a, b) == IF a < b THEN a ELSE b
Rep(c, n) == [i \in 1..n |-> c]

RECURSIVE Flatten(_)
Flatten(ss) == IF ss = <<>> THEN <<>> ELSE Head(ss) \o Flatten(Tail(ss))

-----------------------------------------------------------------------------
(* FormatElement, Tag *)

Space == [t |-> "Space"]
HardSpace == [t |-> "HardSpace"]
Text(s) == [t |-> "Text", text |-> s]
Line(m) == [t |-> "Line", mode |-> m]
ExpandParent == [t |-> "ExpandParent"]
LineSuffixBoundary == [t |-> "LineSuffixBoundary"]
BestFitting(vs) == [t |-> "BestFitting", variants |-> vs]
Interned(c) == [t |-> "Interned", content |-> c]

\* A tag carries: kind (TagKind), mode (the group's mode hint, the dedent mode or the
\* condition's mode), id (a GroupId, 0 for None), count (StartAlign's count).
StartTag(k, m, i, n) == [t |-> "Start", kind |-> k, mode |-> m, id |-> i, count |-> n]
EndTag(k, m, i) == [t |-> "End", kind |-> k, mode |-> m, id |-> i, count |-> 0]

StartGroup(id, mode) == StartTag("Group", mode, id, 0)
EndGroup == EndTag("Group", "-", 0)
StartFill == StartTag("Fill", "-", 0, 0)
EndFill == EndTag("Fill", "-", 0)
StartEntry == StartTag("Entry", "-", 0, 0)
EndEntry == EndTag("Entry", "-", 0)
StartIndent == StartTag("Indent", "-", 0, 0)
EndIndent == EndTag("Indent", "-", 0)
StartDedent(m) == StartTag("Dedent", m, 0, 0)
EndDedent(m) == EndTag("Dedent", m, 0)
StartAlign(n) == StartTag("Align", "-", 0, n)
EndAlign == EndTag("Align", "-", 0)
StartConditionalContent(m, id) == StartTag("ConditionalContent", m, id, 0)
EndConditionalContent == EndTag("ConditionalContent", "-", 0)
StartIndentIfGroupBreaks(id) == StartTag("IndentIfGroupBreaks", "-", id, 0)
EndIndentIfGroupBreaks(id) == EndTag("IndentIfGroupBreaks", "-", id)
StartLineSuffix == StartTag("LineSuffix", "-", 0, 0)
EndLineSuffix == EndTag("LineSuffix", "-", 0)
StartVerbatim == StartTag("Verbatim", "-", 0, 0)
EndVerbatim == EndTag("Verbatim", "-", 0)
StartLabelled == StartTag("Labelled", "-", 0, 0)
EndLabelled == EndTag("Labelled", "-", 0)

IsStart(el, k) == el.t = "Start" /\ el.kind = k
IsEnd(el, k) == el.t = "End" /\ el.kind = k
IsStartEntry(opt) == opt # <<>> /\ IsStart(opt[1], "Entry")

Group(c) == <<StartGroup(0, "Flat")>> \o c \o <<EndGroup>>
Entry(c) == <<StartEntry>> \o c \o <<EndEntry>>
Fill(entries) == <<StartFill>> \o Flatten(entries) \o <<EndFill>>

-----------------------------------------------------------------------------
(* PrintResult: errors and panics.  NoErr is Ok(..) of the step.           *)

NoErr == [type |-> "None", a |-> "-", b |-> "-"]
StartTagMissing(kind) == [type |-> "StartTagMissing", a |-> kind, b |-> "-"]
StartEndTagMismatch(start_kind, end_kind) ==
    [type |-> "StartEndTagMismatch", a |-> start_kind, b |-> end_kind]
ExpectedStart(expected, actual) == [type |-> "ExpectedStart", a |-> expected, b |-> actual]
Panic(why) == [type |-> "Panic", a |-> why, b |-> "-"]

\* invalid_end_tag: start_tag is <<>> (None) or <<kind>>
invalid_end_tag(end_tag, start_tag) ==
    IF start_tag = <<>> THEN StartTagMissing(end_tag)
    ELSE StartEndTagMismatch(end_tag, start_tag[1])

\* invalid_start_tag: actual is <<>> (None) or <<element>>
invalid_start_tag(expected, actual) ==
    ExpectedStart(expected,
        IF actual = <<>> THEN "EndOfDocument"
        ELSE IF actual[1].t = "Start" THEN "Start"
        ELSE IF actual[1].t = "End" THEN "End"
        ELSE "Content")

-----------------------------------------------------------------------------
(* Indention *)

Level(n) == [level |-> n, align |-> 0, align_count |-> 0]
IsAlign(ind) == ind.align > 0

\* NonZeroU8::saturating_add saturates at u8::MAX
U8Max == 255

\* increment_level keeping the alignment under the tab style too
IncrementLevelKeepingAlign(self, indent_style) ==
    IF ~IsAlign(self) THEN Level(self.level + 1)
    ELSE [self EXCEPT !.level = self.level + 1]

increment_level(self, indent_style) ==
    IF ~IsAlign(self) THEN Level(self.level + 1)
    ELSE IF indent_style = "Tab" THEN Level(self.level + self.align_count + 1)
    ELSE [self EXCEPT !.level = self.level + 1]

set_align(self, count) ==
    IF ~IsAlign(self) THEN [level |-> self.level, align |-> count, align_count |-> 1]
    ELSE [level |-> self.level,
          align |-> Min(self.align + count, U8Max),
          align_count |-> self.align_count + 1]

-----------------------------------------------------------------------------
(* Queue (queue.rs): a stack of slices; a slice here is what is left of it, *)
(* so next_index is always the head of the top slice.                       *)

\* PrintQueue::new
NewQueue(slice) == IF slice = <<>> THEN <<>> ELSE <<slice>>

QIsEmpty(q) == q = <<>>

\* Queue::pop: <<>> stands for None, <<el>> for Some(el)
QPopped(q) == IF q = <<>> THEN <<>> ELSE <<Head(Last(q))>>
QAfterPop(q) ==
    IF q = <<>> THEN q
    ELSE IF Len(Last(q)) = 1 THEN Front(q)
    ELSE [q EXCEPT ![Len(q)] = Tail(Last(q))]

\* Queue::top: the next element, looking into Interned
RECURSIVE ResolveInterned(_)
ResolveInterned(top) ==
    IF top # <<>> /\ top[1].t = "Interned"
    THEN ResolveInterned(IF top[1].content = <<>> THEN <<>> ELSE <<Head(top[1].content)>>)
    ELSE top
QTop(q) == ResolveInterned(QPopped(q))

\* Queue::extend_back, Queue::push, Queue::pop_slice
QExtendBack(q, elements) == IF elements = <<>> THEN q ELSE Append(q, elements)
QPush(q, el) == QExtendBack(q, <<el>>)
QPopSlice(q) == IF q = <<>> THEN q ELSE Front(q)

\* Queue::iter_content(kind), run to its end: the elements up to the matching end tag
\* (which is consumed and not yielded).  A queue that ends first is the panic of
\* expect("Missing end signal.").
RECURSIVE IterContent(_, _, _, _)
IterContent(q, kind, depth, acc) ==
    IF q = <<>> THEN [queue |-> q, elements |-> acc, err |-> Panic("Missing end signal")]
    ELSE LET el == Head(Last(q))
             q1 == QAfterPop(q)
         IN IF el.t = "Interned" THEN IterContent(QExtendBack(q1, el.content), kind, depth, acc)
            ELSE IF IsStart(el, kind) THEN IterContent(q1, kind, depth + 1, Append(acc, el))
            ELSE IF IsEnd(el, kind) THEN
                IF depth = 1 THEN [queue |-> q1, elements |-> acc, err |-> NoErr]
                ELSE IterContent(q1, kind, depth - 1, Append(acc, el))
            ELSE IterContent(q1, kind, depth, Append(acc, el))

\* Queue::skip_content
SkipContent(q, kind) == IterContent(q, kind, 1, <<>>)

-----------------------------------------------------------------------------
(* CallStack (call_stack.rs): frames [kind, mode]; PrintElementArgs is the mode *)

RootFrame == [kind |-> "Root", mode |-> "Expanded"]
NewCallStack == <<RootFrame>>

StackTop(st) == Last(st).mode
StackTopKind(st) == IF Last(st).kind = "Root" THEN <<>> ELSE <<Last(st).kind>>
StackPush(st, kind, args) == Append(st, [kind |-> kind, mode |-> args])

\* CallStack::pop(kind): the root frame is put back
StackPop(st, kind) ==
    IF Last(st).kind = kind THEN [stack |-> Front(st), err |-> NoErr]
    ELSE IF Last(st).kind = "Root" THEN [stack |-> st, err |-> StartTagMissing(kind)]
    ELSE [stack |-> Front(st), err |-> StartEndTagMismatch(Last(st).kind, kind)]

-----------------------------------------------------------------------------
(* IndentStack (call_stack.rs): the indentions in force, the ones a Dedent  *)
(* region took off, and the snapshots of the queued line suffixes           *)

NewIndentStack(ind) == [stack |-> <<ind>>, history |-> <<>>, suffix |-> <<>>]

Indention(is) == IF is.stack = <<>> THEN Level(0) ELSE Last(is.stack)
IndentPush(is, ind) == [is EXCEPT !.stack = Append(@, ind)]
IndentPop(is) == IF is.stack = <<>> THEN is ELSE [is EXCEPT !.stack = Front(@)]
Indent(is, indent_style) == IndentPush(is, increment_level(Indention(is), indent_style))
Align(is, count) == IndentPush(is, set_align(Indention(is), count))
ResetIndent(is) == IndentPush(is, Level(0))
StartDedentLevel(is) ==
    IF is.stack = <<>> THEN is
    ELSE [is EXCEPT !.stack = Front(@), !.history = Append(@, Last(is.stack))]
EndDedentLevel(is) ==
    IF is.history = <<>> THEN is
    ELSE [is EXCEPT !.stack = Append(@, Last(is.history)), !.history = Front(@)]
PushSuffix(is, ind) == [is EXCEPT !.suffix = Append(@, ind)]
\* the snapshot of the suffix queued first ends on top
FlushSuffixes(is) ==
    [is EXCEPT !.stack = @ \o [i \in 1..Len(is.suffix) |-> is.suffix[Len(is.suffix) + 1 - i]],
               !.suffix = <<>>]

-----------------------------------------------------------------------------
(* GroupModes: a vector of Option<PrintMode> indexed by the group id        *)

insert_print_mode(gm, group_id, mode) ==
    LET resized == IF Len(gm) <= group_id
                   THEN gm \o [i \in 1..(group_id + 1 - Len(gm)) |-> "None"]
                   ELSE gm
    IN [resized EXCEPT ![group_id + 1] = mode]

\* "None", "Flat" or "Expanded"
get_print_mode(gm, group_id) == IF group_id + 1 <= Len(gm) THEN gm[group_id + 1] ELSE "None"

-----------------------------------------------------------------------------
(* Character widths (unicode_width): wide characters take two columns,      *)
(* control characters none, a tab the indent width                          *)

WideChars == {"W"}
ControlChars == {"\r"}
CharWidth(c) == IF c \in WideChars THEN 2 ELSE IF c \in ControlChars THEN 0 ELSE 1

-----------------------------------------------------------------------------
(* PrinterState *)

NewPrinterState ==
    [buffer |-> <<>>,
     pending_indent |-> Level(0),
     pending_space |-> FALSE,
     measured_group_fits |-> FALSE,
     line_width |-> 0,
     has_empty_line |-> FALSE,
     line_suffixes |-> <<>>,
     verbatim_markers |-> <<>>,
     group_modes |-> <<>>,
     fits_stack |-> <<>>,
     fits_indent_stack |-> <<>>,
     fits_stack_tem_indent |-> <<>>,
     fits_queue |-> <<>>]

-----------------------------------------------------------------------------
(* FitsMeasurer.  A measurer m holds its FitsState (m.state), its shadow    *)
(* queue and stacks, must_be_flat, and the printer it borrows (m.printer,   *)
(* the PrinterState).  A step of it gives [m, fits, err].                   *)

FitsMeasurerNew(print_queue, print_stack, print_indent_stack, printer) ==
    [state |-> [pending_indent |-> printer.pending_indent,
                pending_space |-> printer.pending_space,
                line_width |-> printer.line_width,
                has_line_suffix |-> printer.line_suffixes # <<>>],
     queue |-> print_queue,
     stack |-> print_stack,
     indent_stack |-> [stack |-> print_indent_stack.stack,
                       history |-> print_indent_stack.history],
     must_be_flat |-> FALSE,
     printer |-> [printer EXCEPT !.fits_stack = <<>>, !.fits_queue = <<>>,
                                 !.fits_indent_stack = <<>>,
                                 !.fits_stack_tem_indent = <<>>]]

FitsMeasurerNewFlat(print_queue, print_stack, print_indent_stack, printer) ==
    [FitsMeasurerNew(print_queue, print_stack, print_indent_stack, printer)
        EXCEPT !.must_be_flat = TRUE]

\* FitsMeasurer::finish: the cleared queue and stack vectors go back to the printer
FitsMeasurerFinish(m) == [m.printer EXCEPT !.fits_queue = <<>>, !.fits_stack = <<>>]

FitsR(m, f) == [m |-> m, fits |-> f, err |-> NoErr]
FitsE(m, e) == [m |-> m, fits |-> "Maybe", err |-> e]

\* m.stack.pop(kind)?
FitsPopped(m, p) == [m |-> [m EXCEPT !.stack = p.stack], fits |-> "Maybe", err |-> p.err]
FitsPop(m, kind) == FitsPopped(m, StackPop(m.stack, kind))

FitsSpace(m) ==
    FitsR(IF m.state.line_width > 0 THEN [m EXCEPT !.state.pending_space = TRUE] ELSE m, "Maybe")

FitsHardSpace(m) ==
    FitsR([m EXCEPT !.state.line_width = @ + 1],
          IF m.state.line_width + 1 > options.print_width THEN "No" ELSE "Maybe")

\* fits_element on a Line that takes a flat Soft line for a space, like SoftOrSpace
FitsLineSoftAsSpace(m, line_mode) ==
    IF StackTop(m.stack) = "Flat" THEN
        CASE line_mode \in {"Soft", "SoftOrSpace"} ->
                FitsR([m EXCEPT !.state.pending_space = TRUE], "Maybe")
          [] OTHER -> FitsR(m, "Yes")
    ELSE FitsR(m, "Yes")

\* fits_element on a Line that leaves no space pending for a flat SoftOrSpace line
FitsLineNoPendingSpace(m, line_mode) ==
    IF StackTop(m.stack) = "Flat" THEN
        CASE line_mode \in {"Soft", "SoftOrSpace"} -> FitsR(m, "Maybe")
          [] OTHER -> FitsR(m, "Yes")
    ELSE FitsR(m, "Yes")

\* fits_element on a Line that respects must_be_flat at a Hard or Empty line
FitsLineMustBeFlat(m, line_mode) ==
    IF StackTop(m.stack) = "Flat" THEN
        CASE line_mode = "SoftOrSpace" -> FitsR([m EXCEPT !.state.pending_space = TRUE], "Maybe")
          [] line_mode = "Soft" -> FitsR(m, "Maybe")
          [] OTHER -> FitsR(m, IF m.must_be_flat THEN "No" ELSE "Yes")
    ELSE FitsR(m, "Yes")

FitsLine(m, line_mode) ==
    IF StackTop(m.stack) = "Flat" THEN
        CASE line_mode = "SoftOrSpace" -> FitsR([m EXCEPT !.state.pending_space = TRUE], "Maybe")
          [] line_mode = "Soft" -> FitsR(m, "Maybe")
          [] OTHER -> FitsR(m, "Yes")
    ELSE FitsR(m, "Yes")

\* the loop over text.chars() of fits_text: the width up to the first newline
RECURSIVE FitsChars(_, _)
FitsChars(chars, width) ==
    IF chars = <<>> THEN [width |-> width, newline |-> FALSE]
    ELSE IF Head(chars) = "\n" THEN [width |-> width, newline |-> TRUE]
    ELSE FitsChars(Tail(chars),
                   width + (IF Head(chars) = "\t" THEN options.indent_width
                            ELSE CharWidth(Head(chars))))

\* fits_text with the print width as an exclusive limit (>= where the code has >)
FitsTextVerdictExclusive(m, c) ==
    IF c.newline
    THEN FitsR(m, IF m.must_be_flat \/ c.width >= options.print_width THEN "No" ELSE "Yes")
    ELSE IF c.width >= options.print_width THEN FitsR(m, "No")
    ELSE FitsR([m EXCEPT !.state.pending_space = FALSE], "Maybe")

\* the verdict of fits_text once the characters are counted
FitsTextVerdict(m, c) ==
    IF c.newline
    THEN FitsR(m, IF m.must_be_flat \/ c.width > options.print_width THEN "No" ELSE "Yes")
    ELSE IF c.width > options.print_width THEN FitsR(m, "No")
    ELSE FitsR([m EXCEPT !.state.pending_space = FALSE], "Maybe")

\* fits_text counting on the printer's own line_width instead of the measurer's copy
FitsTextCountedInPlace(m, c) ==
    FitsTextVerdict([m EXCEPT !.state.pending_indent = Level(0), !.state.line_width = c.width,
                              !.printer.line_width = c.width], c)

FitsTextCounted(m, c) ==
    FitsTextVerdict([m EXCEPT !.state.pending_indent = Level(0), !.state.line_width = c.width], c)

FitsText(m, text) ==
    LET indent == m.state.pending_indent
    IN FitsTextCounted(m,
           FitsChars(text, m.state.line_width + indent.level * options.indent_width
                           + indent.align + (IF m.state.pending_space THEN 1 ELSE 0)))

FitsLineSuffixBoundary(m) == FitsR(m, IF m.state.has_line_suffix THEN "No" ELSE "Maybe")

\* the expand-parent arm without the must-be-flat test
FitsExpandParentIgnored(m) == FitsR(m, "Maybe")

FitsExpandParent(m) == FitsR(m, IF m.must_be_flat THEN "No" ELSE "Maybe")

\* best_fitting.most_flat() is the first variant, most_expanded() the last
FitsBestFitting(m, best_fitting) ==
    LET slice == IF StackTop(m.stack) = "Flat" THEN Head(best_fitting.variants)
                 ELSE Last(best_fitting.variants)
    IN IF ~(slice # <<>> /\ IsStart(slice[1], "Entry"))
       THEN FitsE(m, invalid_start_tag("Entry", IF slice = <<>> THEN <<>> ELSE <<slice[1]>>))
       ELSE FitsR([m EXCEPT !.queue = QExtendBack(@, slice)], "Maybe")

FitsInterned(m, content) == FitsR([m EXCEPT !.queue = QExtendBack(@, content)], "Maybe")

FitsStartIndent(m) ==
    FitsR([m EXCEPT !.indent_stack = Indent(@, options.indent_style),
                    !.stack = StackPush(@, "Indent", StackTop(m.stack))], "Maybe")

FitsStartDedent(m, mode) ==
    FitsR([m EXCEPT !.indent_stack = IF mode = "Level" THEN StartDedentLevel(@)
                                     ELSE ResetIndent(@),
                    !.stack = StackPush(@, "Dedent", StackTop(m.stack))], "Maybe")

FitsStartAlign(m, count) ==
    FitsR([m EXCEPT !.indent_stack = Align(@, count),
                    !.stack = StackPush(@, "Align", StackTop(m.stack))], "Maybe")

\* the measurer writes the group's mode into the printer's own group_modes
FitsStartGroup(m, group) ==
    IF m.must_be_flat /\ group.mode # "Flat" THEN FitsR(m, "No")
    ELSE LET group_mode == IF group.mode = "Flat" THEN StackTop(m.stack) ELSE "Expanded"
             m1 == [m EXCEPT !.stack = StackPush(@, "Group", group_mode)]
         IN FitsR(IF group.id # 0
                  THEN [m1 EXCEPT !.printer.group_modes =
                                      insert_print_mode(@, group.id, group_mode)]
                  ELSE m1, "Maybe")

\* get_print_mode(id).unwrap_or_else(|| args.mode())
FitsGroupMode(m, group_id) ==
    LET found == get_print_mode(m.printer.group_modes, group_id)
    IN IF found = "None" THEN StackTop(m.stack) ELSE found

\* after self.queue.skip_content(kind)
FitsSkipped(m, sk) == [m |-> [m EXCEPT !.queue = sk.queue], fits |-> "Maybe", err |-> sk.err]

FitsStartConditionalContent(m, condition) ==
    LET group_mode == IF condition.id = 0 THEN StackTop(m.stack)
                      ELSE FitsGroupMode(m, condition.id)
    IN IF group_mode = condition.mode
       THEN FitsR([m EXCEPT !.stack = StackPush(@, "ConditionalContent", StackTop(m.stack))],
                  "Maybe")
       ELSE FitsSkipped(m, SkipContent(m.queue, "ConditionalContent"))

FitsStartIndentIfGroupBreaks(m, id) ==
    LET m1 == [m EXCEPT !.stack = StackPush(@, "IndentIfGroupBreaks", StackTop(m.stack))]
    IN FitsR(IF FitsGroupMode(m, id) = "Flat" THEN m1
             ELSE [m1 EXCEPT !.indent_stack = Indent(@, options.indent_style)], "Maybe")

\* the region skipped without the pending-suffix flag being set
FitsStartLineSuffixUnflagged(m) == FitsSkipped(m, SkipContent(m.queue, "LineSuffix"))

FitsStartLineSuffix(m) ==
    FitsSkipped([m EXCEPT !.state.has_line_suffix = TRUE], SkipContent(m.queue, "LineSuffix"))

FitsEndLineSuffix(m) == FitsE(m, invalid_end_tag("LineSuffix", StackTopKind(m.stack)))

\* StartFill | StartVerbatim | StartLabelled | StartEntry
FitsStartOther(m, kind) == FitsR([m EXCEPT !.stack = StackPush(@, kind, StackTop(m.stack))], "Maybe")

FitsEndIndentIfGroupBreaks(m, group_id) ==
    LET m1 == IF FitsGroupMode(m, group_id) = "Expanded"
              THEN [m EXCEPT !.indent_stack = IndentPop(@)] ELSE m
    IN FitsPop(m1, "IndentIfGroupBreaks")

\* EndIndent | EndAlign
FitsEndIndentPopped(p) ==
    IF p.err # NoErr THEN p ELSE [p EXCEPT !.m.indent_stack = IndentPop(@)]
FitsEndIndent(m, kind) == FitsEndIndentPopped(FitsPop(m, kind))

\* only Dedent(Level) is undone
FitsEndDedent(m, mode) ==
    FitsPop(IF mode = "Level" THEN [m EXCEPT !.indent_stack = EndDedentLevel(@)] ELSE m,
            "Dedent")

fits_element(m, el) ==
    CASE el.t = "Space" -> FitsSpace(m)
      [] el.t = "HardSpace" -> FitsHardSpace(m)
      [] el.t = "Line" -> FitsLine(m, el.mode)
      [] el.t = "Text" -> FitsText(m, el.text)
      [] el.t = "LineSuffixBoundary" -> FitsLineSuffixBoundary(m)
      [] el.t = "ExpandParent" -> FitsExpandParent(m)
      [] el.t = "BestFitting" -> FitsBestFitting(m, el)
      [] el.t = "Interned" -> FitsInterned(m, el.content)
      [] IsStart(el, "Indent") -> FitsStartIndent(m)
      [] IsStart(el, "Dedent") -> FitsStartDedent(m, el.mode)
      [] IsStart(el, "Align") -> FitsStartAlign(m, el.count)
      [] IsStart(el, "Group") -> FitsStartGroup(m, el)
      [] IsStart(el, "ConditionalContent") -> FitsStartConditionalContent(m, el)
      [] IsStart(el, "IndentIfGroupBreaks") -> FitsStartIndentIfGroupBreaks(m, el.id)
      [] IsStart(el, "LineSuffix") -> FitsStartLineSuffix(m)
      [] IsEnd(el, "LineSuffix") -> FitsEndLineSuffix(m)
      [] el.t = "Start" /\ el.kind \in {"Fill", "Verbatim", "Labelled", "Entry"} ->
            FitsStartOther(m, el.kind)
      [] el.t = "End" /\ el.kind \in {"Labelled", "Entry", "Group", "ConditionalContent",
                                       "Verbatim", "Fill"} -> FitsPop(m, el.kind)
      [] IsEnd(el, "IndentIfGroupBreaks") -> FitsEndIndentIfGroupBreaks(m, el.id)
      [] el.t = "End" /\ el.kind \in {"Indent", "Align"} -> FitsEndIndent(m, el.kind)
      [] IsEnd(el, "Dedent") -> FitsEndDedent(m, el.mode)

(* FitsEndPredicate: AllPredicate never ends; SingleEntryPredicate ends at  *)
(* the end tag of the entry the measurement started at, and lets an         *)
(* Interned element pass: its content is what the queue gives next          *)

AllPredicate == [single |-> FALSE, depth |-> 0, done |-> FALSE]
SingleEntryPredicate == [single |-> TRUE, depth |-> 0, done |-> FALSE]

\* [pred, end, err]
PredicateIsEnd(pred, el) ==
    IF ~pred.single THEN [pred |-> pred, end |-> FALSE, err |-> NoErr]
    ELSE IF pred.done THEN [pred |-> pred, end |-> TRUE, err |-> NoErr]
    ELSE IF IsStart(el, "Entry")
        THEN [pred |-> [pred EXCEPT !.depth = @ + 1], end |-> FALSE, err |-> NoErr]
    ELSE IF IsEnd(el, "Entry") THEN
        IF pred.depth = 0
        THEN [pred |-> pred, end |-> FALSE, err |-> invalid_end_tag("Entry", <<>>)]
        ELSE [pred |-> [pred EXCEPT !.depth = @ - 1, !.done = (pred.depth = 1)],
              end |-> pred.depth = 1, err |-> NoErr]
    ELSE IF el.t = "Interned" THEN [pred |-> pred, end |-> FALSE, err |-> NoErr]
    ELSE IF pred.depth = 0
        THEN [pred |-> pred, end |-> FALSE, err |-> invalid_start_tag("Entry", <<el>>)]
    ELSE [pred |-> pred, end |-> FALSE, err |-> NoErr]

\* FitsMeasurer::fits: [m, fits (a boolean), err, pred]
FitsDone(m, fits, err, pred) == [m |-> m, fits |-> fits, err |-> err, pred |-> pred]

RECURSIVE MeasurerFits(_, _)

\* after predicate.is_end(element)?
FitsAfterPredicate(m, pe) ==
    IF pe.err # NoErr THEN FitsDone(m, FALSE, pe.err, pe.pred)
    ELSE IF pe.end THEN FitsDone(m, TRUE, NoErr, pe.pred)
    ELSE MeasurerFits(m, pe.pred)

\* after self.fits_element(element)?
FitsAfterElement(r, el, pred) ==
    IF r.err # NoErr THEN FitsDone(r.m, FALSE, r.err, pred)
    ELSE IF r.fits = "Yes" THEN FitsDone(r.m, TRUE, NoErr, pred)
    ELSE IF r.fits = "No" THEN FitsDone(r.m, FALSE, NoErr, pred)
    ELSE FitsAfterPredicate(r.m, PredicateIsEnd(pred, el))

MeasurerFits(m, pred) ==
    IF m.queue = <<>> THEN FitsDone(m, TRUE, NoErr, pred)
    ELSE FitsAfterElement(fits_element([m EXCEPT !.queue = QAfterPop(@)], Head(Last(m.queue))),
                          Head(Last(m.queue)), pred)

\* fill_item_fits, fill_separator_fits: [m, fits, err]
EntryFits(m, fits, err) == [m |-> m, fits |-> fits, err |-> err]

FillEntryPop(m, fits, p) == EntryFits([m EXCEPT !.stack = p.stack], fits, p.err)

FillEntryMeasured(f) ==
    IF f.err # NoErr THEN EntryFits(f.m, FALSE, f.err)
    ELSE IF f.pred.done THEN FillEntryPop(f.m, f.fits, StackPop(f.m.stack, "Fill"))
    ELSE EntryFits(f.m, f.fits, NoErr)

fill_entry_fits(m, mode) ==
    IF ~IsStartEntry(QTop(m.queue))
    THEN EntryFits(m, FALSE, invalid_start_tag("Entry", QTop(m.queue)))
    ELSE FillEntryMeasured(MeasurerFits([m EXCEPT !.stack = StackPush(@, "Fill", mode)],
                                        SingleEntryPredicate))

-----------------------------------------------------------------------------
(* Printer.  The handlers work on pr = [state, queue, stack, indent_stack,  *)
(* err, log]: the printer's state, the three structures print_element gets *)
(* by reference, the error or panic that ended the call (NoErr while there  *)
(* is none), and the measurers created so far in this step.  A handler that *)
(* goes on after a call that can fail (the ? operator) is split at the call.*)
(* pr.shortcuts is history: for each group, fill and best-fitting element   *)
(* that took the cached verdict, what the measurement of the other branch   *)
(* says at that point; pr.entry_modes is history too: the print mode of each    *)
(* call of print_entry.                                                     *)

\* print_char with measured_group_fits left as it is at a newline
PrintCharKeepingVerdict(st, char) ==
    IF char = "\n"
    THEN [st EXCEPT !.buffer = @ \o options.line_ending,
                    !.line_width = 0]
    ELSE [st EXCEPT !.buffer = Append(@, char),
                    !.line_width = @ + (IF char = "\t" THEN options.indent_width
                                        ELSE CharWidth(char))]

print_char(st, char) ==
    IF char = "\n"
    THEN [st EXCEPT !.buffer = @ \o options.line_ending,
                    !.line_width = 0,
                    !.measured_group_fits = FALSE]
    ELSE [st EXCEPT !.buffer = Append(@, char),
                    !.line_width = @ + (IF char = "\t" THEN options.indent_width
                                        ELSE CharWidth(char))]

RECURSIVE print_str(_, _)
print_str(st, content) ==
    IF content = <<>> THEN st
    ELSE print_str([print_char(st, Head(content)) EXCEPT !.has_empty_line = FALSE],
                   Tail(content))

\* the two loops of print_text that write the pending indentation
RECURSIVE PrintChars(_, _, _)
PrintChars(st, char, n) == IF n = 0 THEN st ELSE PrintChars(print_char(st, char), char, n - 1)

PrintPendingIndent(st) ==
    LET indent == st.pending_indent
    IN IF indent = Level(0) THEN st
       ELSE PrintChars(
                PrintChars([st EXCEPT !.pending_indent = Level(0)],
                           IF options.indent_style = "Tab" THEN "\t" ELSE " ",
                           IF options.indent_style = "Tab" THEN indent.level
                           ELSE indent.level * options.indent_width),
                " ", indent.align)

PrintPendingSpace(st) ==
    IF st.pending_space THEN [print_str(st, <<" ">>) EXCEPT !.pending_space = FALSE] ELSE st

print_text(st, text) == print_str(PrintPendingSpace(PrintPendingIndent(st)), text)

\* LineSuffixes::extend: the region's elements, then the args they are printed with
LineSuffixesExtend(suffixes, args, elements) ==
    suffixes \o [i \in 1..Len(elements) |-> [t |-> "Suffix", el |-> elements[i]]]
             \o <<[t |-> "Args", args |-> args]>>

\* the loop of flush_line_suffixes run over the suffixes from the first to the last, not
\* in reverse
RECURSIVE FlushEntriesForward(_, _)
FlushEntriesForward(pr, suffixes) ==
    IF suffixes = <<>> THEN pr
    ELSE FlushEntriesForward(
             IF Head(suffixes).t = "Suffix" THEN [pr EXCEPT !.queue = QPush(@, Head(suffixes).el)]
             ELSE [pr EXCEPT !.stack = StackPush(@, "LineSuffix", Head(suffixes).args),
                             !.queue = QPush(@, EndLineSuffix)],
             Tail(suffixes))

\* the loop of flush_line_suffixes over suffixes.rev()
RECURSIVE FlushEntries(_, _)
FlushEntries(pr, suffixes) ==
    IF suffixes = <<>> THEN pr
    ELSE FlushEntries(
             IF Last(suffixes).t = "Suffix" THEN [pr EXCEPT !.queue = QPush(@, Last(suffixes).el)]
             ELSE [pr EXCEPT !.stack = StackPush(@, "LineSuffix", Last(suffixes).args),
                             !.queue = QPush(@, EndLineSuffix)],
             Front(suffixes))

\* line_break is <<>> (None) or <<element>>
\* flush_line_suffixes that leaves the suffixes it queued in the store
FlushKeepingSuffixes(pr, line_break) ==
    IF pr.state.line_suffixes = <<>> THEN pr
    ELSE FlushEntries(
             [pr EXCEPT !.queue = IF line_break = <<>> THEN @ ELSE QPush(@, line_break[1]),
                        !.indent_stack = FlushSuffixes(@)],
             pr.state.line_suffixes)

flush_line_suffixes(pr, line_break) ==
    IF pr.state.line_suffixes = <<>> THEN pr
    ELSE FlushEntries(
             [pr EXCEPT !.state.line_suffixes = <<>>,
                        !.queue = IF line_break = <<>> THEN @ ELSE QPush(@, line_break[1]),
                        !.indent_stack = FlushSuffixes(@)],
             pr.state.line_suffixes)

\* stack.pop(kind)?
PrPopped(pr, p) == [pr EXCEPT !.stack = p.stack, !.err = p.err]
PrPop(pr, kind) == PrPopped(pr, StackPop(pr.stack, kind))

\* what the log keeps of a measurer that was finished
Measured(before, after, must_be_flat, fits, err) ==
    [before |-> before, after |-> after, must_be_flat |-> must_be_flat,
     fits |-> IF err # NoErr THEN "Err" ELSE IF fits THEN "Yes" ELSE "No",
     finished |-> TRUE]

\* and of one that an early return (the ? operator, a failed assert) dropped
Dropped(before, m) ==
    [before |-> before, after |-> m.printer, must_be_flat |-> m.must_be_flat,
     fits |-> "Err", finished |-> FALSE]

\* Printer::fits: [pr, fits]; pr.err is the measurer's error
PrinterFitsFinished(pr, r, after) ==
    [pr |-> [pr EXCEPT !.state = after,
                       !.err = r.err,
                       !.log = Append(@, Measured(pr.state, after, FALSE, r.fits, r.err))],
     fits |-> r.fits]

PrinterFitsMeasured(pr, r) == PrinterFitsFinished(pr, r, FitsMeasurerFinish(r.m))

PrinterFits(pr) ==
    PrinterFitsMeasured(pr, MeasurerFits(FitsMeasurerNew(pr.queue, pr.stack, pr.indent_stack,
                                                         pr.state), AllPredicate))

\* the Space arm without the test of line_width: a space is pending at column 0 too
PrintSpaceAnywhere(pr) == [pr EXCEPT !.state.pending_space = TRUE]

\* FormatElement::Space | FormatElement::HardSpace
PrintSpace(pr) ==
    IF pr.state.line_width > 0 THEN [pr EXCEPT !.state.pending_space = TRUE] ELSE pr

PrintTextElement(pr, text) == [pr EXCEPT !.state = print_text(@, text)]

\* Only print a newline if the current line isn't already empty
PrintNewline(st) == IF st.line_width > 0 THEN print_str(st, <<"\n">>) ELSE st

\* the second line break of an Empty line printed whatever has_empty_line says
PrintEmptyLineAlways(st, line_mode) ==
    IF line_mode = "Empty"
    THEN [print_str(st, <<"\n">>) EXCEPT !.has_empty_line = TRUE]
    ELSE st

\* Print a second line break if this is an empty line
PrintEmptyLine(st, line_mode) ==
    IF line_mode = "Empty" /\ ~st.has_empty_line
    THEN [print_str(st, <<"\n">>) EXCEPT !.has_empty_line = TRUE]
    ELSE st

\* the line break that leaves a pending space pending
PrintLineBreakKeepingSpace(pr, el) ==
    IF pr.state.line_suffixes # <<>> THEN flush_line_suffixes(pr, <<el>>)
    ELSE [pr EXCEPT !.state = [PrintEmptyLine(PrintNewline(@), el.mode)
                                  EXCEPT !.pending_indent = Indention(pr.indent_stack)]]

\* a Line that is not elided: flush the suffixes first, or break the line
PrintLineBreak(pr, el) ==
    IF pr.state.line_suffixes # <<>> THEN flush_line_suffixes(pr, <<el>>)
    ELSE [pr EXCEPT !.state = [PrintEmptyLine(PrintNewline(@), el.mode)
                                  EXCEPT !.pending_space = FALSE,
                                         !.pending_indent = Indention(pr.indent_stack)]]

PrintLine(pr, el) ==
    IF StackTop(pr.stack) = "Flat"
    THEN IF el.mode \in {"Soft", "SoftOrSpace"}
         THEN IF el.mode = "SoftOrSpace" /\ pr.state.line_width > 0
              THEN [pr EXCEPT !.state.pending_space = TRUE]
              ELSE pr
         ELSE PrintLineBreak([pr EXCEPT !.state.measured_group_fits = FALSE], el)
    ELSE PrintLineBreak(pr, el)

PrintExpandParent(pr) == pr

PrintLineSuffixBoundary(pr) == flush_line_suffixes(pr, <<Line("Hard")>>)

PrintInterned(pr, content) == [pr EXCEPT !.queue = QExtendBack(@, content)]

\* if let Some(id) = group.id() { insert_print_mode(id, mode) }
SetGroupMode(pr, id, mode) ==
    IF id # 0 THEN [pr EXCEPT !.state.group_modes = insert_print_mode(@, id, mode)] ELSE pr

\* the StartGroup arm without insert_print_mode at its end
EnterGroupUnrecorded(pr, id, group_mode) ==
    [pr EXCEPT !.stack = StackPush(@, "Group", group_mode)]

\* the end of the StartGroup arm: the frame and the mode of the group
EnterGroup(pr, id, group_mode) ==
    SetGroupMode([pr EXCEPT !.stack = StackPush(@, "Group", group_mode)], id, group_mode)

GroupPopped(pr, id, fits) ==
    IF pr.err # NoErr THEN pr ELSE EnterGroup(pr, id, IF fits THEN "Flat" ELSE "Expanded")

GroupMeasured(f, id) ==
    IF f.pr.err # NoErr THEN f.pr ELSE GroupPopped(PrPop(f.pr, "Group"), id, f.fits)

\* the measurement of the other branch of the StartGroup arm, run where the cached
\* verdict was taken
GroupMeasurement(pr, group) ==
    PrinterFits([SetGroupMode(pr, group.id, "Flat")
                    EXCEPT !.stack = StackPush(@, "Group", "Flat")])

Verdict(f) == IF f.pr.err # NoErr THEN "Err" ELSE IF f.fits THEN "Yes" ELSE "No"

Shortcut(pr, kind, verdict) ==
    [pr EXCEPT !.shortcuts = Append(@, [kind |-> kind, fits |-> verdict])]

\* PrintMode::Flat if self.state.measured_group_fits => PrintMode::Flat
GroupCached(pr, group) ==
    EnterGroup(Shortcut(pr, "Group", Verdict(GroupMeasurement(pr, group))), group.id, "Flat")

\* the StartGroup arm without the test of the group's mode: every group is measured
PrintStartGroupMeasured(pr, group) ==
    IF StackTop(pr.stack) = "Flat" /\ pr.state.measured_group_fits
    THEN EnterGroup(pr, group.id, "Flat")
    ELSE GroupMeasured(
             PrinterFits([SetGroupMode([pr EXCEPT !.state.measured_group_fits = TRUE],
                                       group.id, "Flat")
                             EXCEPT !.stack = StackPush(@, "Group", "Flat")]),
             group.id)

PrintStartGroup(pr, group) ==
    IF group.mode # "Flat" THEN EnterGroup(pr, group.id, "Expanded")
    ELSE IF StackTop(pr.stack) = "Flat" /\ pr.state.measured_group_fits
    THEN GroupCached(pr, group)
    ELSE GroupMeasured(
             PrinterFits([SetGroupMode([pr EXCEPT !.state.measured_group_fits = TRUE],
                                       group.id, "Flat")
                             EXCEPT !.stack = StackPush(@, "Group", "Flat")]),
             group.id)

\* the StartIndent arm making the new indentation pending at once, without a line break
PrintStartIndentPending(pr) ==
    [pr EXCEPT !.indent_stack = Indent(@, options.indent_style),
               !.stack = StackPush(@, "Indent", StackTop(pr.stack)),
               !.state.pending_indent = increment_level(Indention(pr.indent_stack),
                                                        options.indent_style)]

PrintStartIndent(pr) ==
    [pr EXCEPT !.indent_stack = Indent(@, options.indent_style),
               !.stack = StackPush(@, "Indent", StackTop(pr.stack))]

PrintStartDedent(pr, mode) ==
    [pr EXCEPT !.indent_stack = IF mode = "Level" THEN StartDedentLevel(@) ELSE ResetIndent(@),
               !.stack = StackPush(@, "Dedent", StackTop(pr.stack))]

PrintStartAlign(pr, count) ==
    [pr EXCEPT !.indent_stack = Align(@, count),
               !.stack = StackPush(@, "Align", StackTop(pr.stack))]

\* GroupModes::unwrap_print_mode panics on a group that was not printed yet
UnwrapPanic == Panic("Expected group to exist")

\* after queue.skip_content(kind)
PrSkipped(pr, sk) == [pr EXCEPT !.queue = sk.queue, !.err = sk.err]

PrintStartConditionalContent(pr, condition) ==
    LET group_mode == IF condition.id = 0 THEN StackTop(pr.stack)
                      ELSE get_print_mode(pr.state.group_modes, condition.id)
    IN IF group_mode = "None" THEN [pr EXCEPT !.err = UnwrapPanic]
       ELSE IF group_mode = condition.mode
       THEN [pr EXCEPT !.stack = StackPush(@, "ConditionalContent", StackTop(pr.stack))]
       ELSE PrSkipped(pr, SkipContent(pr.queue, "ConditionalContent"))

PrintStartIndentIfGroupBreaks(pr, group_id) ==
    LET group_mode == get_print_mode(pr.state.group_modes, group_id)
    IN IF group_mode = "None" THEN [pr EXCEPT !.err = UnwrapPanic]
       ELSE [pr EXCEPT !.indent_stack = IF group_mode = "Expanded"
                                        THEN Indent(@, options.indent_style) ELSE @,
                       !.stack = StackPush(@, "IndentIfGroupBreaks", StackTop(pr.stack))]

\* line_suffixes.extend(args, queue.iter_content(TagKind::LineSuffix))
LineSuffixQueued(pr, it) ==
    [pr EXCEPT !.indent_stack = PushSuffix(@, Indention(pr.indent_stack)),
               !.queue = it.queue,
               !.state.line_suffixes = LineSuffixesExtend(@, StackTop(pr.stack), it.elements),
               !.err = it.err]

PrintStartLineSuffix(pr) == LineSuffixQueued(pr, IterContent(pr.queue, "LineSuffix", 1, <<>>))

\* todo!()
PrintStartVerbatim(pr) == [pr EXCEPT !.err = Panic("not yet implemented")]

\* StartLabelled | StartEntry
PrintStartOther(pr, kind) == [pr EXCEPT !.stack = StackPush(@, kind, StackTop(pr.stack))]

\* the arm of the plain end tags with the result of stack.pop dropped instead of returned
PrintEndOtherLenient(pr, kind) == [PrPop(pr, kind) EXCEPT !.err = NoErr]

\* EndLabelled | EndEntry | EndGroup | EndConditionalContent | EndVerbatim | EndFill
PrintEndOther(pr, kind) == PrPop(pr, kind)

PrintEndIndentIfGroupBreaks(pr, group_id) ==
    LET group_mode == get_print_mode(pr.state.group_modes, group_id)
    IN IF group_mode = "None" THEN [pr EXCEPT !.err = UnwrapPanic]
       ELSE PrPop(IF group_mode = "Expanded" THEN [pr EXCEPT !.indent_stack = IndentPop(@)]
                  ELSE pr, "IndentIfGroupBreaks")

\* EndIndent | EndAlign | EndLineSuffix
PrintEndIndentPopped(p) == IF p.err # NoErr THEN p ELSE [p EXCEPT !.indent_stack = IndentPop(@)]
PrintEndIndent(pr, kind) == PrintEndIndentPopped(PrPop(pr, kind))

PrintEndDedent(pr, mode) ==
    PrPop([pr EXCEPT !.indent_stack = IF mode = "Level" THEN EndDedentLevel(@) ELSE IndentPop(@)],
          "Dedent")

RECURSIVE print_element(_, _)

\* the loop of print_entry
RECURSIVE PrintEntryLoop(_, _, _)

PrintEntryNext(pr, args, depth) ==
    IF pr.err # NoErr THEN pr ELSE PrintEntryLoop(pr, args, depth)

PrintEntryElement(pr, el, args, depth) ==
    IF IsStart(el, "Entry") /\ depth = 0
    THEN PrintEntryLoop([pr EXCEPT !.stack = StackPush(@, "Entry", args)], args, 1)
    ELSE IF IsEnd(el, "Entry") /\ depth - 1 = 0 THEN PrPop(pr, "Entry")
    ELSE PrintEntryNext(print_element(pr, el), args,
                        IF IsStart(el, "Entry") THEN depth + 1
                        ELSE IF IsEnd(el, "Entry") THEN depth - 1
                        ELSE depth)

PrintEntryLoop(pr, args, depth) ==
    IF pr.queue = <<>> THEN [pr EXCEPT !.err = invalid_end_tag("Entry", StackTopKind(pr.stack))]
    ELSE PrintEntryElement([pr EXCEPT !.queue = QAfterPop(@)], Head(Last(pr.queue)), args, depth)

\* print_fill_item and print_fill_separator are aliases of it
print_entry(pr, args) ==
    IF ~IsStartEntry(QTop(pr.queue))
    THEN [pr EXCEPT !.err = invalid_start_tag("Entry", QTop(pr.queue))]
    ELSE PrintEntryLoop([pr EXCEPT !.entry_modes = Append(@, args)], args, 0)

\* the measuring loop of print_fill_entries, entered after the first item was found
\* to fit: [m, layout, flat_pairs, err]
Pairs(m, layout, flat_pairs, err) ==
    [m |-> m, layout |-> layout, flat_pairs |-> flat_pairs, err |-> err]

RECURSIVE MeasureFillPairs(_, _)

PairsAfterItem(item, flat_pairs) ==
    IF item.err # NoErr THEN Pairs(item.m, "-", flat_pairs, item.err)
    ELSE IF item.fits THEN MeasureFillPairs(item.m, flat_pairs + 1)
    ELSE Pairs(item.m, "ItemFlatSeparatorExpanded", flat_pairs, NoErr)

\* the separator that ends the fill measured again, as one that does not fit is
PairsAfterSeparatorRemeasured(sep, flat_pairs) ==
    IF sep.err # NoErr THEN Pairs(sep.m, "-", flat_pairs, sep.err)
    ELSE IF ~sep.fits \/ ~IsStartEntry(QTop(sep.m.queue))
    THEN Pairs(sep.m, "ItemMaybeFlat", flat_pairs, NoErr)
    ELSE PairsAfterItem(fill_entry_fits(sep.m, "Flat"), flat_pairs)

PairsAfterSeparator(sep, flat_pairs) ==
    IF sep.err # NoErr THEN Pairs(sep.m, "-", flat_pairs, sep.err)
    ELSE IF ~sep.fits THEN Pairs(sep.m, "ItemMaybeFlat", flat_pairs, NoErr)
    ELSE IF ~IsStartEntry(QTop(sep.m.queue)) THEN Pairs(sep.m, "Flat", flat_pairs, NoErr)
    ELSE PairsAfterItem(fill_entry_fits(sep.m, "Flat"), flat_pairs)

MeasureFillPairs(m, flat_pairs) ==
    IF ~IsStartEntry(QTop(m.queue)) THEN Pairs(m, "Flat", flat_pairs, NoErr)
    ELSE PairsAfterSeparator(fill_entry_fits(m, "Flat"), flat_pairs)

\* the first measurement of an iteration of the fill loop: [pr, layout, flat_pairs]
FillFirstItem(first) ==
    IF first.err # NoErr THEN Pairs(first.m, "-", 0, first.err)
    ELSE IF first.fits THEN MeasureFillPairs(first.m, 0)
    ELSE Pairs(first.m, "Expanded", 0, NoErr)

FillFinished(pr, pairs, after) ==
    [pr |-> [pr EXCEPT !.state = [after EXCEPT !.measured_group_fits = TRUE],
                       !.log = Append(@, Measured(pr.state, after, TRUE,
                                                  pairs.layout # "Expanded", NoErr))],
     layout |-> pairs.layout, flat_pairs |-> pairs.flat_pairs]

FillMeasured(pr, pairs) ==
    IF pairs.err # NoErr
    THEN [pr |-> [pr EXCEPT !.state = pairs.m.printer,
                            !.err = pairs.err,
                            !.log = Append(@, Dropped(pr.state, pairs.m))],
          layout |-> "-", flat_pairs |-> 0]
    ELSE FillFinished(pr, pairs, FitsMeasurerFinish(pairs.m))

FillMeasure(pr) ==
    FillMeasured(pr, FillFirstItem(fill_entry_fits(
        FitsMeasurerNewFlat(pr.queue, pr.stack, pr.indent_stack, pr.state), "Flat")))

\* for _ in 0..flat_pairs: the item and the separator in flat mode
RECURSIVE PrintFlatPairs(_, _)

FlatSeparatorPrinted(separator, flat_pairs) ==
    IF separator.err # NoErr THEN separator ELSE PrintFlatPairs(separator, flat_pairs - 1)

FlatItemPrinted(item, flat_pairs) ==
    IF item.err # NoErr THEN item
    ELSE FlatSeparatorPrinted(print_entry(item, "Flat"), flat_pairs)

PrintFlatPairs(pr, flat_pairs) ==
    IF flat_pairs = 0 THEN pr ELSE FlatItemPrinted(print_entry(pr, "Flat"), flat_pairs)

\* the second measurement, of the ItemMaybeFlat layout: [pr, item_mode]
ItemMode(pr, item_mode) == [pr |-> pr, item_mode |-> item_mode]

RemeasureDropped(pr, m, err) ==
    ItemMode([pr EXCEPT !.state = m.printer, !.err = err,
                        !.log = Append(@, Dropped(pr.state, m))], "-")

RemeasureFinished(pr, separator, after) ==
    ItemMode([pr EXCEPT !.state = after,
                        !.log = Append(@, Measured(pr.state, after, TRUE, separator.fits, NoErr))],
             IF separator.fits THEN "Flat" ELSE "Expanded")

\* the item printed in flat mode whatever the second measurement of the separator says
RemeasureSeparatorItemFlat(pr, separator) ==
    IF separator.err # NoErr THEN RemeasureDropped(pr, separator.m, separator.err)
    ELSE ItemMode(RemeasureFinished(pr, separator, FitsMeasurerFinish(separator.m)).pr, "Flat")

RemeasureSeparator(pr, separator) ==
    IF separator.err # NoErr THEN RemeasureDropped(pr, separator.m, separator.err)
    ELSE RemeasureFinished(pr, separator, FitsMeasurerFinish(separator.m))

RemeasureItem(pr, item) ==
    IF item.err # NoErr THEN RemeasureDropped(pr, item.m, item.err)
    ELSE IF ~item.fits
    THEN RemeasureDropped(pr, item.m, Panic("assertion failed: measurer.fill_item_fits()?"))
    ELSE RemeasureSeparator(pr, fill_entry_fits(item.m, "Expanded"))

FillRemeasure(pr) ==
    RemeasureItem(pr, fill_entry_fits(
        FitsMeasurerNewFlat(pr.queue, pr.stack, pr.indent_stack, pr.state), "Flat"))

\* one iteration of the while loop of print_fill_entries
FillSeparatorPrinted(separator) ==
    IF separator.err # NoErr THEN separator ELSE PrPop(separator, "Fill")

\* the separator printed in flat mode for the ItemFlatSeparatorExpanded layout too
FillItemPrintedSeparatorFlat(item, layout) ==
    IF item.err # NoErr \/ ~IsStartEntry(QTop(item.queue)) THEN item
    ELSE FillSeparatorPrinted(
             print_entry([item EXCEPT !.stack = StackPush(@, "Fill", "Flat")],
                         IF layout \in {"Flat", "ItemFlatSeparatorExpanded"} THEN "Flat"
                         ELSE "Expanded"))

FillItemPrinted(item, layout) ==
    IF item.err # NoErr \/ ~IsStartEntry(QTop(item.queue)) THEN item
    ELSE FillSeparatorPrinted(
             print_entry([item EXCEPT !.stack = StackPush(@, "Fill", "Flat")],
                         IF layout = "Flat" THEN "Flat" ELSE "Expanded"))

FillItemModeChosen(mode, layout) ==
    IF mode.pr.err # NoErr THEN mode.pr
    ELSE FillItemPrinted(print_entry(mode.pr, mode.item_mode), layout)

FillFlatPrinted(flat, layout) ==
    IF flat.err # NoErr THEN flat
    ELSE FillItemModeChosen(
             IF layout \in {"Flat", "ItemFlatSeparatorExpanded"} THEN ItemMode(flat, "Flat")
             ELSE IF layout = "Expanded" THEN ItemMode(flat, "Expanded")
             ELSE FillRemeasure(flat),
             layout)

FillPairsMeasured(measured) ==
    IF measured.pr.err # NoErr THEN measured.pr
    ELSE FillFlatPrinted(PrintFlatPairs(measured.pr, measured.flat_pairs), measured.layout)

FillIteration(pr) == FillPairsMeasured(FillMeasure(pr))

RECURSIVE FillLoop(_)

FillIterated(pr) == IF pr.err # NoErr THEN pr ELSE FillLoop(pr)

FillLoop(pr) ==
    IF IsStartEntry(QTop(pr.queue)) THEN FillIterated(FillIteration(pr))
    ELSE IF QTop(pr.queue) # <<>> /\ IsEnd(QTop(pr.queue)[1], "Fill") THEN pr
    ELSE [pr EXCEPT !.err = invalid_end_tag("Fill", StackTopKind(pr.stack))]

\* the first measurement of the fill loop, run where the cached verdict was taken: the
\* layout is Flat when every entry of the fill fits
FillVerdict(measured) ==
    IF measured.pr.err # NoErr THEN "Err" ELSE IF measured.layout = "Flat" THEN "Yes" ELSE "No"

FillMeasurement(pr) ==
    IF IsStartEntry(QTop(pr.queue))
    THEN FillVerdict(FillMeasure([pr EXCEPT !.stack = StackPush(@, "Fill", "Flat")]))
    ELSE "Yes"

\* It's already known that the content fit, print all items in flat mode.
FillCached(pr) ==
    [Shortcut(pr, "Fill", FillMeasurement(pr)) EXCEPT !.stack = StackPush(@, "Fill", "Flat")]

\* every fill measured, the cached verdict never taken
print_fill_entries_measured(pr) ==
    FillLoop([pr EXCEPT !.stack = StackPush(@, "Fill", StackTop(pr.stack))])

print_fill_entries(pr) ==
    IF pr.state.measured_group_fits /\ StackTop(pr.stack) = "Flat"
    THEN FillCached(pr)
    ELSE FillLoop([pr EXCEPT !.stack = StackPush(@, "Fill", StackTop(pr.stack))])

\* the loop of print_best_fitting over the variants but the last
RECURSIVE BestFittingLoop(_, _, _)

VariantPopped(pr, fits, best_fitting, i) ==
    IF pr.err # NoErr THEN pr
    ELSE IF fits
    THEN print_entry([pr EXCEPT !.queue = QExtendBack(QPopSlice(@), best_fitting.variants[i])],
                     "Flat")
    ELSE BestFittingLoop([pr EXCEPT !.queue = QPopSlice(@)], best_fitting, i + 1)

VariantMeasured(f, best_fitting, i) ==
    IF f.pr.err # NoErr THEN f.pr
    ELSE VariantPopped(PrPop(f.pr, "Entry"), f.fits, best_fitting, i)

\* the loop run over all the variants, the last one included (> where the code stops at
\* the last variant)
BestFittingLoopAllMeasured(pr, best_fitting, i) ==
    IF i > Len(best_fitting.variants)
    THEN print_entry([pr EXCEPT !.queue = QExtendBack(@, Last(best_fitting.variants))],
                     "Expanded")
    ELSE IF ~IsStartEntry(best_fitting.variants[i])
    THEN [pr EXCEPT !.err = invalid_start_tag("Entry",
                                IF best_fitting.variants[i] = <<>> THEN <<>>
                                ELSE <<best_fitting.variants[i][1]>>)]
    ELSE VariantMeasured(
             PrinterFits([pr EXCEPT !.queue = QExtendBack(@, Tail(best_fitting.variants[i])),
                                    !.stack = StackPush(@, "Entry", "Flat")]),
             best_fitting, i)

BestFittingLoop(pr, best_fitting, i) ==
    IF i >= Len(best_fitting.variants)
    THEN print_entry([pr EXCEPT !.queue = QExtendBack(@, Last(best_fitting.variants))],
                     "Expanded")
    ELSE IF ~IsStartEntry(best_fitting.variants[i])
    THEN [pr EXCEPT !.err = invalid_start_tag("Entry",
                                IF best_fitting.variants[i] = <<>> THEN <<>>
                                ELSE <<best_fitting.variants[i][1]>>)]
    ELSE VariantMeasured(
             PrinterFits([pr EXCEPT !.queue = QExtendBack(@, Tail(best_fitting.variants[i])),
                                    !.stack = StackPush(@, "Entry", "Flat")]),
             best_fitting, i)

\* the measurement of the most flat variant, run where the cached verdict was taken
VariantMeasurement(pr, best_fitting) ==
    IF ~IsStartEntry(Head(best_fitting.variants)) THEN "Err"
    ELSE Verdict(PrinterFits(
             [pr EXCEPT !.queue = QExtendBack(@, Tail(Head(best_fitting.variants))),
                        !.stack = StackPush(@, "Entry", "Flat")]))

print_best_fitting(pr, best_fitting) ==
    IF StackTop(pr.stack) = "Flat" /\ pr.state.measured_group_fits
    THEN print_entry([Shortcut(pr, "BestFitting", VariantMeasurement(pr, best_fitting))
                         EXCEPT !.queue = QExtendBack(@, Head(best_fitting.variants))],
                     StackTop(pr.stack))
    ELSE BestFittingLoop([pr EXCEPT !.state.measured_group_fits = TRUE], best_fitting, 1)

print_element(pr, el) ==
    CASE el.t \in {"Space", "HardSpace"} -> PrintSpace(pr)
      [] el.t = "Text" -> PrintTextElement(pr, el.text)
      [] el.t = "Line" -> PrintLine(pr, el)
      [] el.t = "ExpandParent" -> PrintExpandParent(pr)
      [] el.t = "LineSuffixBoundary" -> PrintLineSuffixBoundary(pr)
      [] el.t = "BestFitting" -> print_best_fitting(pr, el)
      [] el.t = "Interned" -> PrintInterned(pr, el.content)
      [] IsStart(el, "Group") -> PrintStartGroup(pr, el)
      [] IsStart(el, "Fill") -> print_fill_entries(pr)
      [] IsStart(el, "Indent") -> PrintStartIndent(pr)
      [] IsStart(el, "Dedent") -> PrintStartDedent(pr, el.mode)
      [] IsStart(el, "Align") -> PrintStartAlign(pr, el.count)
      [] IsStart(el, "ConditionalContent") -> PrintStartConditionalContent(pr, el)
      [] IsStart(el, "IndentIfGroupBreaks") -> PrintStartIndentIfGroupBreaks(pr, el.id)
      [] IsStart(el, "LineSuffix") -> PrintStartLineSuffix(pr)
      [] IsStart(el, "Verbatim") -> PrintStartVerbatim(pr)
      [] el.t = "Start" /\ el.kind \in {"Labelled", "Entry"} -> PrintStartOther(pr, el.kind)
      [] el.t = "End" /\ el.kind \in {"Labelled", "Entry", "Group", "ConditionalContent",
                                       "Verbatim", "Fill"} -> PrintEndOther(pr, el.kind)
      [] IsEnd(el, "IndentIfGroupBreaks") -> PrintEndIndentIfGroupBreaks(pr, el.id)
      [] el.t = "End" /\ el.kind \in {"Indent", "Align", "LineSuffix"} ->
            PrintEndIndent(pr, el.kind)
      [] IsEnd(el, "Dedent") -> PrintEndDedent(pr, el.mode)

-----------------------------------------------------------------------------
(* Document::propagate_expands, the pass that runs before print: a Group    *)
(* that contains a Hard or Empty line, an expand-parent marker or a Group   *)
(* left in expanded mode gets the expanded mode.  The variants of a         *)
(* best-fitting element are processed and do not expand what encloses it.   *)

RECURSIVE AnyExpands(_)
ElementExpands(el) ==
    \/ el.t = "ExpandParent"
    \/ el.t = "Line" /\ el.mode \in {"Hard", "Empty"}
    \/ IsStart(el, "Group") /\ el.mode = "Expanded"
    \/ el.t = "Interned" /\ AnyExpands(el.content)
AnyExpands(els) == \E i \in 1..Len(els) : ElementExpands(els[i])

\* the index of the end tag matching the Group start at i (Len(els) + 1 without one)
RECURSIVE GroupEnd(_, _, _)
GroupEnd(els, j, depth) ==
    IF j > Len(els) THEN j
    ELSE IF IsStart(els[j], "Group") THEN GroupEnd(els, j + 1, depth + 1)
    ELSE IF IsEnd(els[j], "Group")
        THEN IF depth = 1 THEN j ELSE GroupEnd(els, j + 1, depth - 1)
    ELSE GroupEnd(els, j + 1, depth)

RECURSIVE propagate_expands(_)
propagate_expands(els) ==
    [i \in 1..Len(els) |->
        LET el == els[i]
        IN IF IsStart(el, "Group")
           THEN IF AnyExpands(SubSeq(els, i + 1, GroupEnd(els, i + 1, 1) - 1))
                THEN [el EXCEPT !.mode = "Expanded"] ELSE el
           ELSE IF el.t = "Interned" THEN Interned(propagate_expands(el.content))
           ELSE IF el.t = "BestFitting"
           THEN BestFitting([v \in 1..Len(el.variants) |-> propagate_expands(el.variants[v])])
           ELSE el]

-----------------------------------------------------------------------------
(* The documents and options print is run on *)

\* "x" repeated n times
X(n) == Rep("x", n)
Foo == <<"f", "o", "o">>
Barbaz == <<"b", "a", "r", "b", "a", "z">>

Texts == {X(n) : n \in 0..MaxTextLen} \cup {Foo, Barbaz, <<"W">>, <<"x", "\n", "y">>}
ShortTexts == {X(1), X(MaxTextLen)}

PrintWidths == 1..MaxPrintWidth
LF == <<"\n">>
CRLF == <<"\r", "\n">>
Options(w, style, ending) ==
    [print_width |-> w, indent_style |-> style, indent_width |-> 2, line_ending |-> ending]
OptionSets ==
    {Options(w, s[1], s[2]) : w \in PrintWidths,
                              s \in {<<"Space", LF>>, <<"Tab", LF>>, <<"Space", CRLF>>}}
SpaceOptions == {Options(w, "Space", LF) : w \in PrintWidths}

\* Group [text a, SoftOrSpace, text b]
GroupPair(a, b) == Group(<<Text(a), Line("SoftOrSpace"), Text(b)>>)
PairDocuments == {GroupPair(a, b) : a, b \in Texts}

\* a Group, with or without an id, in the mode the builder gave it
GroupWith(id, c) == <<StartGroup(id, "Flat")>> \o c \o <<EndGroup>>

\* groups of texts and soft lines, alone and nested
SoftLines == {Line("Soft"), Line("SoftOrSpace")}
GroupBodies ==
    {<<Text(a), l, Text(b)>> : a, b \in ShortTexts, l \in SoftLines}
    \cup {<<Line("SoftOrSpace"), Text(a), Line("SoftOrSpace"), Text(X(1))>> : a \in ShortTexts}
    \cup {<<Text(a), l>> \o Group(<<Text(X(1)), l, Text(X(1))>>) : a \in ShortTexts,
                                                                    l \in SoftLines}

\* what comes before and after the group
Contexts ==
    {<< <<>>, <<>> >>,
     << <<Text(X(MaxTextLen))>>, <<>> >>,
     << <<Text(X(1)), Space>>, <<>> >>,
     << <<>>, <<Text(X(2))>> >>,
     << <<>>, <<Line("Soft"), Text(X(MaxTextLen))>> >>,
     << <<StartIndent, Line("Hard")>>, <<EndIndent>> >>}

GroupDocuments == {c[1] \o Group(body) \o c[2] : c \in Contexts, body \in GroupBodies}

\* groups that hold a Hard or Empty line or an expand-parent marker: directly, in a
\* nested group, in an interned slice
Expanders == {Line("Hard"), Line("Empty"), ExpandParent}
ExpandingBodies ==
    {<<Text(X(1)), l, Text(X(1)), k>> : l \in SoftLines, k \in Expanders}
    \cup {<<k, Text(X(1)), l, Text(X(1))>> : l \in SoftLines, k \in Expanders}
    \cup {<<Text(X(1)), l>> \o Group(<<Text(X(1)), k>>) \o <<l, Text(X(1))>> :
            l \in SoftLines, k \in Expanders}
    \cup {<<Text(X(1)), l, Interned(<<Text(X(1)), k>>)>> : l \in SoftLines, k \in Expanders}

ExpandingDocuments ==
    {pre \o Group(body) : pre \in {<<>>, <<Text(X(1))>>}, body \in ExpandingBodies}

\* Fill: items and separators, each an Entry; the separator is "," and a SoftOrSpace line
Separator == Entry(<<Text(<<",">>), Line("SoftOrSpace")>>)
RECURSIVE FillEntries(_)
FillEntries(items) ==
    IF items = <<>> THEN <<>>
    ELSE IF Len(items) = 1 THEN <<Entry(<<Text(items[1])>>)>>
    ELSE <<Entry(<<Text(items[1])>>), Separator>> \o FillEntries(Tail(items))
FillOf(items) == Fill(FillEntries(items))

Digits == <<<<"1">>, <<"2">>, <<"3">>>>
FillItems ==
    {Digits} \cup UNION {[1..n -> ShortTexts] : n \in 0..3}

\* fills whose content is not a sequence of entries
MalformedFills ==
    {<<StartFill>>,
     <<StartFill, Text(X(1)), EndFill>>,
     <<StartFill>> \o Entry(<<Text(X(1))>>) \o <<Text(X(1)), EndFill>>,
     <<StartFill>> \o Entry(<<Text(X(1))>>) \o <<EndGroup>>,
     <<StartFill>> \o Entry(<<Text(X(1))>>) \o Separator \o <<StartIndent, EndIndent, EndFill>>,
     <<StartFill>> \o Entry(<<Text(X(1))>>) \o Separator}

FillDocuments ==
    {FillOf(items) : items \in FillItems}
    \cup {<<Text(X(1))>> \o FillOf(items) : items \in [1..2 -> ShortTexts]}
    \cup {Group(FillOf(items)) : items \in [1..2 -> ShortTexts]}
    \cup MalformedFills
    \cup {Group(f) : f \in MalformedFills}

\* BestFitting: a variant is an Entry; n times the character c, a SoftOrSpace line, "y"
Variant(c, n) == Entry(<<Text(Rep(c, n)), Line("SoftOrSpace"), Text(<<"y">>)>>)
VariantLists ==
    {<<Variant("a", i), Variant("b", j), Variant("c", k)>> : i, j, k \in 1..MaxTextLen}
    \cup {<<Variant("a", i), Variant("c", k)>> : i, k \in 1..MaxTextLen}
    \cup {<<Variant("c", k)>> : k \in 1..MaxTextLen}

\* variants that do not start with the Entry tag
MalformedVariants ==
    {<<>>, <<Text(X(1))>>, <<StartGroup(0, "Flat"), Text(X(1)), EndGroup>>, <<EndEntry>>}
MalformedVariantLists ==
    {<<v, Variant("c", 1)>> : v \in MalformedVariants}
    \cup {<<Variant("a", MaxTextLen), v>> : v \in MalformedVariants}
    \cup {<<Variant("a", 1), v, Variant("c", 1)>> : v \in MalformedVariants}

BestFittingDocuments ==
    {<<BestFitting(vs)>> : vs \in VariantLists \cup MalformedVariantLists}
    \cup {<<BestFitting(vs), Text(X(MaxTextLen))>> : vs \in MalformedVariantLists}
    \cup {Group(<<BestFitting(vs)>>) : vs \in MalformedVariantLists}
    \cup {Group(<<BestFitting(<<Variant("a", i), Variant("c", 1)>>)>>) : i \in 1..MaxTextLen}

\* indentation: Indent, Align and Dedent regions around texts on lines of their own
IndentDocuments ==
    {<<StartIndent, Text(X(1)), EndIndent, Line("Hard"), Text(<<"y">>)>>,
     <<StartIndent, Line("Hard"), Text(X(1)), EndIndent, Line("Hard"), Text(<<"y">>)>>,
     <<StartIndent, Line("Hard"), Text(X(1)), StartDedent("Level"), Line("Hard"), Text(X(1)),
       EndDedent("Level"), Line("Hard"), Text(X(1)), EndIndent, Line("Hard"), Text(<<"y">>)>>,
     <<StartIndent, StartIndent, Line("Hard"), Text(X(1)), StartDedent("Root"), Line("Hard"),
       Text(X(1)), EndDedent("Root"), Line("Hard"), Text(X(1)), EndIndent, EndIndent>>,
     <<StartAlign(3), Line("Hard"), Text(X(1)), StartIndent, Line("Hard"), Text(X(1)),
       EndIndent, EndAlign, Line("Hard"), Text(<<"y">>)>>,
     <<StartIndent, StartAlign(1), StartAlign(2), Line("Hard"), Text(X(1)), EndAlign, EndAlign,
       EndIndent>>}

\* documents of text, space and line atoms only
Atoms ==
    {Text(X(1)), Text(X(MaxTextLen)), Space, HardSpace, Line("SoftOrSpace"), Line("Hard"),
     Line("Empty")}
AtomDocuments == [1..3 -> Atoms]

\* a start tag of each kind, an end tag of each kind
StartTags ==
    {StartGroup(0, "Flat"), StartFill, StartEntry, StartIndent, StartDedent("Level"),
     StartAlign(1), StartConditionalContent("Expanded", 0), StartIndentIfGroupBreaks(1),
     StartLineSuffix, StartVerbatim, StartLabelled}
EndTags ==
    {EndGroup, EndFill, EndEntry, EndIndent, EndDedent("Level"), EndDedent("Root"), EndAlign,
     EndConditionalContent, EndIndentIfGroupBreaks(1), EndLineSuffix, EndVerbatim, EndLabelled}

\* end tags without a start tag, and after the start tag of another kind
TagDocuments ==
    {<<Text(X(1)), e, Text(<<"y">>)>> : e \in EndTags}
    \cup {<<s, Text(X(1)), e, Text(<<"y">>)>> : s \in StartTags, e \in EndTags}
    \cup {GroupWith(1, <<Text(X(1))>>) \o <<s, Text(X(1)), e, Text(<<"y">>)>> :
            s \in {StartIndentIfGroupBreaks(1), StartIndent},
            e \in {EndIndentIfGroupBreaks(1), EndIndent}}

\* the elements the families above leave out
OtherDocuments ==
    {<<Text(X(1)), StartLineSuffix, Text(<<"c">>), EndLineSuffix, Text(X(1)), Line("Hard"),
       Text(<<"y">>)>>,
     <<Text(X(1)), StartLineSuffix, Text(<<"c">>), EndLineSuffix, LineSuffixBoundary,
       Text(<<"y">>)>>,
     <<Text(X(1)), StartLineSuffix, Text(<<"c">>), EndLineSuffix>>,
     <<Text(X(1)), ExpandParent, HardSpace, Text(X(1)), Space, Space, Text(<<"y">>)>>,
     <<StartLabelled, Text(X(1)), EndLabelled, Interned(<<Text(X(1)), Line("Hard")>>),
       Interned(<<Text(X(1)), Line("Hard")>>)>>,
     <<StartVerbatim, Text(X(1)), EndVerbatim>>}
    \cup {GroupWith(1, <<Text(a), Line("SoftOrSpace"), Text(X(1)),
                         StartConditionalContent(m, 0), Text(<<",">>), EndConditionalContent>>)
            \o <<StartConditionalContent(m, 1), Text(<<";">>), EndConditionalContent,
                 StartIndentIfGroupBreaks(1), Line("Hard"), Text(<<"y">>),
                 EndIndentIfGroupBreaks(1)>> :
            a \in ShortTexts, m \in {"Flat", "Expanded"}}

\* line suffixes: one or two LineSuffix regions ("c", "d"), then what may flush them (a
\* line of each mode, a LineSuffixBoundary, the end of the document), at the root and
\* inside a Group with the id 1
Suffix(c) == <<StartLineSuffix, Text(c), EndLineSuffix>>
SuffixRegions ==
    {Suffix(<<"c">>),
     Suffix(<<"c">>) \o Suffix(<<"d">>),
     Suffix(<<"c">>) \o <<Text(X(1))>> \o Suffix(<<"d">>)}
SuffixTriggers ==
    {<<>>, <<LineSuffixBoundary>>}
    \cup {<<Line(m)>> : m \in {"Hard", "Empty", "Soft", "SoftOrSpace"}}
SuffixTails == {<<>>, <<Text(<<"y">>)>>, <<Text(<<"y">>), Line("Hard"), Text(<<"z">>)>>}
LineSuffixDocuments ==
    {pre \o sfx \o trig \o post :
        pre \in {<<>>, <<Text(X(1))>>}, sfx \in SuffixRegions,
        trig \in SuffixTriggers, post \in SuffixTails}
    \cup {GroupWith(1, <<Text(X(1))>> \o sfx \o <<Line(m), Text(<<"y">>)>>) \o post :
            sfx \in SuffixRegions, m \in {"Soft", "SoftOrSpace"},
            post \in {<<>>, <<Line("Hard"), Text(<<"z">>)>>}}

\* LineSuffix regions that end the document inside a best-fitting variant, a fill entry,
\* an indented region and another LineSuffix region
NestedSuffixDocuments ==
    {<<BestFitting(<<Entry(<<Text(X(n))>> \o Suffix(<<"c">>)),
                     Entry(<<Text(X(1))>> \o Suffix(<<"c">>))>>)>> : n \in 1..MaxTextLen}
    \cup {<<StartFill>> \o Entry(<<Text(X(1))>> \o Suffix(<<"c">>)) \o <<EndFill>>,
          <<StartFill>> \o Entry(<<Text(X(1))>> \o Suffix(<<"c">>)) \o Separator
                        \o Entry(<<Text(X(MaxTextLen))>> \o Suffix(<<"d">>)) \o <<EndFill>>,
          <<StartIndent, Text(X(1))>> \o Suffix(<<"c">>) \o <<EndIndent>>,
          <<StartLineSuffix>> \o Suffix(<<"c">>) \o <<EndLineSuffix>>,
          <<StartLineSuffix, Text(<<"c">>), Line("Hard"), EndLineSuffix>>}

\* LineSuffix regions whose content is a Group: well-formed documents
GroupedSuffixDocuments ==
    {<<Text(X(1)), StartLineSuffix>> \o Group(<<Text(<<"c">>)>>) \o <<EndLineSuffix>> \o post :
        post \in {<<>>, <<Line("Hard"), Text(<<"y">>)>>}}

\* fills with an entry that holds a stray EndGroup tag: in the first item, in the
\* separator, in the second item, and in a separator whose flat measurement ends (No) in
\* a conditional content before the stray tag is met
StrayEntry(c) == <<StartEntry>> \o c \o <<EndGroup, EndEntry>>
MismatchedFills ==
    {<<StartFill>> \o StrayEntry(<<Text(X(1))>>) \o <<EndFill>>,
     <<StartFill>> \o Entry(<<Text(X(1))>>) \o StrayEntry(<<Text(<<",">>)>>)
                   \o Entry(<<Text(X(1))>>) \o <<EndFill>>,
     <<StartFill>> \o Entry(<<Text(X(1))>>) \o Separator \o StrayEntry(<<Text(X(1))>>)
                   \o <<EndFill>>,
     <<StartFill>> \o Entry(<<Text(X(1))>>)
                   \o StrayEntry(<<StartConditionalContent("Flat", 0), Text(X(MaxTextLen)),
                                   EndConditionalContent>>)
                   \o Entry(<<Text(X(1))>>) \o <<EndFill>>}

\* the runs of print: the options and the document before propagate_expands
\* a group with an id whose mode is read inside it, after it and inside a later group
Cond(m, id, c) == <<StartConditionalContent(m, id), Text(<<c>>), EndConditionalContent>>
IdGroup(a) ==
    GroupWith(1, <<Text(a), Line("SoftOrSpace"), Text(X(1))>> \o Cond("Flat", 1, "f")
                 \o Cond("Expanded", 1, "e"))
IdGroupThenIndent(a) ==
    IdGroup(a) \o Cond("Flat", 1, "F") \o Cond("Expanded", 1, "E")
        \o <<StartIndentIfGroupBreaks(1), Line("Hard"), Text(<<"y">>),
             EndIndentIfGroupBreaks(1)>>
IdGroupEnclosed(a) ==
    Group(<<Text(<<"p">>), Line("SoftOrSpace")>> \o IdGroup(a) \o Cond("Flat", 1, "F")
          \o Cond("Expanded", 1, "E"))
IdGroupThenGroup(a) ==
    IdGroup(a) \o GroupWith(2, Cond("Flat", 1, "F") \o Cond("Expanded", 1, "E")
                                \o <<Line("SoftOrSpace"), Text(<<"r">>)>>)
GroupModeDocuments ==
    UNION {{IdGroupThenIndent(a), IdGroupEnclosed(a), IdGroupThenGroup(a)} : a \in ShortTexts}

\* elements that meet the cached verdict: a group inside a fill item, with and without
\* text after the fill and with a separator that holds no line; a fill, a group and a
\* best-fitting element inside a group printed flat, also after a text with a newline
Comma == Entry(<<Text(<<",">>)>>)
GroupItem(a) == Entry(GroupPair(a, X(1)))
CachedDocuments ==
    {Fill(<<GroupItem(a)>>) \o <<Text(b)>> : a, b \in ShortTexts}
    \cup {Fill(<<GroupItem(a)>>) \o <<Line("Soft"), Text(b)>> : a, b \in ShortTexts}
    \cup {Fill(<<GroupItem(a), Comma, Entry(<<Text(b)>>)>>) : a, b \in ShortTexts}
    \cup {Fill(<<GroupItem(a), Separator, GroupItem(b)>>) : a, b \in ShortTexts}
    \cup {Group(<<Text(a), Line("SoftOrSpace")>> \o FillOf(<<X(1), b>>)) \o <<Text(c)>> :
            a, b, c \in ShortTexts}
    \cup {Group(<<Text(<<"x", "\n", "y">>), Line("SoftOrSpace")>> \o FillOf(<<a, X(1)>>)) :
            a \in ShortTexts}
    \cup {Group(<<Text(<<"x", "\n", "y">>), Line("SoftOrSpace")>> \o GroupPair(a, X(1))) :
            a \in ShortTexts}
    \cup {Group(FillOf(<<a, <<"x", "\n", "y">>, X(1)>>)) : a \in ShortTexts}
    \cup {Group(<<Text(a), Line("SoftOrSpace"),
                  BestFitting(<<Variant("a", i), Variant("c", 1)>>)>>) \o <<Text(b)>> :
            a, b \in ShortTexts, i \in 1..MaxTextLen}
    \cup {Group(<<Text(a), Line("SoftOrSpace")>> \o GroupPair(b, X(1))) \o <<Text(c)>> :
            a, b, c \in ShortTexts}

\* fills whose items and separators hold a line, so that the mode an entry was printed
\* in shows in the output: items [a, SoftOrSpace, b], separators with the line after the
\* comma, before it, and without a line
SoftItem(a, b) == Entry(<<Text(a), Line("SoftOrSpace"), Text(b)>>)
LeadingSeparator == Entry(<<Line("SoftOrSpace"), Text(<<",">>)>>)
Separators == {Separator, LeadingSeparator, Comma}
LayoutDocuments ==
    {Fill(<<SoftItem(a, X(1)), s, SoftItem(b, X(1))>>) : a, b \in ShortTexts, s \in Separators}
    \cup {<<Text(X(1))>> \o Fill(<<SoftItem(a, X(1)), s, SoftItem(b, X(1))>>) :
            a, b \in ShortTexts, s \in Separators}
    \cup {Fill(<<Entry(<<Text(a)>>), s, SoftItem(b, X(1)), s, SoftItem(c, X(1))>>) :
            a, b, c \in ShortTexts, s \in Separators}
    \cup {Fill(<<SoftItem(a, X(1)), s>>) : a \in ShortTexts, s \in Separators}
    \cup {Group(Fill(<<SoftItem(a, X(1)), s, SoftItem(b, X(1))>>)) :
            a, b \in ShortTexts, s \in Separators}
    \cup {Group(Fill(<<Entry(<<Text(<<"x", "\n", "y">>)>>), Separator, GroupItem(a)>>)) :
            a \in ShortTexts}

\* fills of three and four items whose first entries hold spaces, lines and groups, at
\* the start of the document, after a text and on an indented line: the pairs that fit
\* are printed before the item of the pair that does not is measured again
OddItems ==
    {<<Text(X(1))>>, <<Text(X(MaxTextLen))>>,
     <<Space, Text(X(1))>>, <<HardSpace, Text(X(1))>>, <<Text(X(1)), HardSpace>>,
     <<Text(X(1)), Space, Text(X(1))>>, <<Line("Soft"), Text(X(1))>>,
     <<Line("SoftOrSpace"), Text(X(1))>>, <<Text(X(1)), Line("Hard")>>,
     <<Line("Hard"), Text(X(1))>>, <<Text(<<"\t">>)>>, GroupPair(X(1), X(1))}
RemeasuredFills ==
    {Fill(<<Entry(i), s, Entry(j), s, Entry(<<Text(X(1))>>)>>) :
        i, j \in OddItems, s \in {Separator, Comma}}
    \cup {Fill(<<Entry(<<Text(X(1))>>), Entry(i), Entry(<<Text(X(1))>>), Entry(i),
                 Entry(<<Text(X(1))>>)>>) : i \in OddItems}
    \cup {FillOf(<<X(1), X(1), X(1), X(1)>>)}
RemeasuredDocuments ==
    RemeasuredFills
    \cup {<<Text(X(1))>> \o FillOf(<<X(1), X(1), a>>) : a \in ShortTexts}
    \cup {<<StartIndent, Line("Hard")>> \o FillOf(<<X(1), X(1), a>>) \o <<EndIndent>> :
            a \in ShortTexts}
    \cup {<<StartAlign(1), Line("Hard")>> \o FillOf(<<X(1), X(1), a>>) \o <<EndAlign>> :
            a \in ShortTexts}

\* a group that starts with a hard space
HardSpaceDocuments == {Group(<<HardSpace, Text(a)>>) : a \in ShortTexts}

\* runs of one to three line atoms of any modes between two texts, at the root and in
\* an indented region
LineModes == {"Soft", "SoftOrSpace", "Hard", "Empty"}
LineRuns == UNION {[1..n -> {Line(m) : m \in LineModes}] : n \in 1..3}
LineRunDocuments ==
    {<<Text(X(1))>> \o run \o <<Text(X(1))>> : run \in LineRuns}
    \cup {<<StartIndent, Text(X(1))>> \o run \o <<Text(X(1)), EndIndent>> : run \in LineRuns}
    \cup {<<Line("Empty")>> \o run \o <<Text(X(1))>> : run \in LineRuns}

\* align regions inside one another and around an indent region, with alignments that
\* add up past 255
AlignDocuments ==
    {<<StartAlign(a), StartAlign(b), StartIndent, Line("Hard"), Text(X(1)), EndIndent,
       EndAlign, EndAlign>> : a, b \in 1..2}
    \cup {<<StartIndent, StartAlign(2), StartIndent, Line("Hard"), Text(X(1)), EndIndent,
            EndAlign, EndIndent>>,
          <<StartAlign(200), StartAlign(100), StartIndent, EndIndent, EndAlign, EndAlign>>,
          <<StartAlign(255), StartAlign(1), EndAlign, EndAlign>>}

\* what a must-be-flat measurement refuses: a fill whose first item holds an
\* expand-parent marker, a Group with a Hard line (its mode hint is Expanded after
\* propagate_expands) or a text with a newline; and a group followed by an
\* expand-parent marker, which its measurement walks over
NewlineTexts == {<<"\n">>, <<"x", "\n", "y">>, <<"x", "x", "\n">>}
MustBeFlatDocuments ==
    {Fill(<<Entry(c), Separator, Entry(<<Text(X(1))>>)>>) :
        c \in {<<ExpandParent, Text(X(1))>>,
               Group(<<Text(X(1)), Line("Hard"), Text(X(1))>>)}
              \cup {<<Text(t)>> : t \in NewlineTexts}}
    \cup {Group(<<Text(a)>>) \o <<ExpandParent, Text(b)>> : a, b \in ShortTexts}

\* a LineSuffixBoundary met by a measurement: after a LineSuffix region of the group,
\* after a region the printer has queued before the group, and with no region at all;
\* and a group whose region holds more text than the line has room for
SuffixBoundaryDocuments ==
    {Group(<<Text(X(1))>> \o Suffix(<<"c">>) \o <<LineSuffixBoundary, Text(<<"y">>)>>),
     Suffix(<<"c">>) \o Group(<<Text(X(1)), LineSuffixBoundary, Text(<<"y">>)>>),
     Group(<<Text(X(1)), LineSuffixBoundary, Text(<<"y">>)>>),
     Group(<<Text(X(1))>> \o Suffix(Barbaz) \o <<Line("SoftOrSpace"), Text(<<"y">>)>>)}

\* documents with interned content: inside a group (nested and empty too), around the
\* entries of a fill, around a whole fill, holding the start tag of a group that ends
\* outside, inside a LineSuffix region and a conditional content, inside a variant of a
\* best-fitting element, and as the whole of a variant
InternedDocuments ==
    {Group(<<Text(a), Interned(<<Line("SoftOrSpace"), Text(b)>>)>>) : a, b \in ShortTexts}
    \cup {Group(<<Interned(<<Text(a), Interned(<<Line("SoftOrSpace")>>)>>), Text(b),
                  Interned(<<>>)>>) : a, b \in ShortTexts}
    \cup {Fill(<<<<Interned(Entry(<<Text(a)>>))>>, <<Interned(Separator)>>,
                 Entry(<<Interned(<<Text(b)>>)>>)>>) : a, b \in ShortTexts}
    \cup {<<StartFill, Interned(Entry(<<Text(a)>>) \o Separator \o Entry(<<Text(b)>>)),
            EndFill>> : a, b \in ShortTexts}
    \cup {<<Interned(FillOf(<<a, b, a>>)), Text(b)>> : a, b \in ShortTexts}
    \cup {<<Interned(<<StartGroup(0, "Flat"), Text(a)>>), Line("SoftOrSpace"), Text(a),
            EndGroup>> : a \in ShortTexts}
    \cup {<<Text(X(1)), StartLineSuffix, Interned(<<Text(<<"c">>)>>), EndLineSuffix,
            Interned(<<Line("Hard"), Text(<<"y">>)>>)>>}
    \cup {GroupWith(1, <<Text(a), Line("SoftOrSpace"), Text(X(1))>>)
            \o <<StartConditionalContent(m, 1), Interned(<<Text(<<"e">>)>>),
                 EndConditionalContent>> : a \in ShortTexts, m \in {"Flat", "Expanded"}}
    \cup {<<BestFitting(<<Entry(<<Interned(<<Text(a), Line("SoftOrSpace"), Text(<<"y">>)>>)>>),
                          Variant("c", 1)>>)>> : a \in ShortTexts}
    \cup {<<BestFitting(<<<<Interned(Variant("a", n))>>, Variant("c", 1)>>)>> :
            n \in {1, MaxTextLen}}

\* indentation regions whose content is measured: an Indent, an Align, the two Dedent
\* regions and an IndentIfGroupBreaks region around a group, a fill and a LineSuffix
\* region, after a group with the id 1 that is printed flat or expanded
RegionTags ==
    {<<StartIndent, EndIndent>>, <<StartAlign(3), EndAlign>>,
     <<StartDedent("Level"), EndDedent("Level")>>, <<StartDedent("Root"), EndDedent("Root")>>,
     <<StartIndentIfGroupBreaks(1), EndIndentIfGroupBreaks(1)>>}
RegionContents36 ==
    {GroupPair(X(1), X(MaxTextLen)),
     <<Line("Hard")>> \o FillOf(<<X(1), X(1)>>),
     <<Text(X(1))>> \o Suffix(<<"c">>) \o <<Line("Hard"), Text(X(1))>>,
     <<StartIndent, Line("Hard"), Text(X(1)), EndIndent>>}
RegionDocuments ==
    {GroupWith(1, <<Text(a), Line("SoftOrSpace"), Text(X(1))>>)
        \o <<StartIndent, Line("Hard")>> \o <<tags[1]>> \o c \o <<tags[2]>>
        \o <<Line("Hard"), Text(<<"y">>), EndIndent>> :
        a \in ShortTexts, tags \in RegionTags, c \in RegionContents36}

\* an IndentIfGroupBreaks region that comes before the group it names, inside a group,
\* at the root and inside an Indent region
ForwardReference(a, b) ==
    Group(<<Text(a), Line("SoftOrSpace"), StartIndentIfGroupBreaks(1)>> \o Group(<<Text(b)>>)
          \o <<EndIndentIfGroupBreaks(1)>> \o GroupWith(1, <<Text(X(1))>>))
ForwardReferences ==
    {ForwardReference(a, b) : a, b \in ShortTexts}
    \cup {<<StartIndent, Line("Hard")>> \o ForwardReference(a, b)
            \o <<Line("Hard"), Text(<<"y">>), EndIndent>> : a, b \in ShortTexts}

\* runs of one to three Space and SoftOrSpace atoms between two texts, in a group and
\* (Space atoms only) at the root, the texts empty too; Space atoms at the start and the
\* end of the document and on both sides of a line break
SpaceRunTexts == {X(0), X(1)}
SpaceRuns == UNION {[1..n -> {Space, Line("SoftOrSpace")}] : n \in 1..3}
SpaceRunDocuments ==
    {Group(<<Text(a)>> \o run \o <<Text(b)>>) : a, b \in SpaceRunTexts, run \in SpaceRuns}
    \cup {<<Text(a)>> \o [i \in 1..n |-> Space] \o <<Text(b)>> :
            a, b \in SpaceRunTexts, n \in 1..3}
    \cup {<<Space, Text(a), Space, Line(m), Space, Text(b), Space>> :
            a, b \in SpaceRunTexts, m \in {"Hard", "Empty", "SoftOrSpace"}}
    \cup {Group(<<Space, Line("SoftOrSpace"), Text(a), Space, Line("SoftOrSpace")>>) :
            a \in SpaceRunTexts}

Runs ==
    (OptionSets \X (PairDocuments \cup FillDocuments \cup BestFittingDocuments
                    \cup IndentDocuments \cup OtherDocuments \cup CachedDocuments
                    \cup LineRunDocuments \cup AlignDocuments))
    \cup (SpaceOptions \X (GroupDocuments \cup ExpandingDocuments \cup AtomDocuments
                           \cup TagDocuments \cup LineSuffixDocuments
                           \cup NestedSuffixDocuments \cup GroupedSuffixDocuments
                           \cup MismatchedFills \cup GroupModeDocuments
                           \cup LayoutDocuments \cup RemeasuredDocuments
                           \cup HardSpaceDocuments \cup MustBeFlatDocuments
                           \cup SuffixBoundaryDocuments \cup InternedDocuments
                           \cup RegionDocuments \cup ForwardReferences
                           \cup SpaceRunDocuments))

-----------------------------------------------------------------------------
(* The state machine *)

Running == [type |-> "Running", error |-> NoErr]
Ok == [type |-> "Ok", error |-> NoErr]
Failed(err) == [type |-> IF err.type = "Panic" THEN "Panic" ELSE "Err", error |-> err]

\* Printer::new and the start of print_with_indent(document, 0)
Init ==
    /\ \E run \in Runs : options = run[1] /\ document = propagate_expands(run[2])
    /\ queue = NewQueue(document)
    /\ stack = NewCallStack
    /\ indent_stack = NewIndentStack(Level(0))
    /\ state = NewPrinterState
    /\ element = Space
    /\ result = Running
    /\ measurements = <<>>
    /\ shortcuts = <<>>
    /\ entry_modes = <<>>
    /\ OthersIdle

\* if queue.is_empty() { self.flush_line_suffixes(.., None) }
AfterElement(pr) ==
    IF pr.err = NoErr /\ QIsEmpty(pr.queue) THEN flush_line_suffixes(pr, <<>>) ELSE pr

\* the variables after an iteration of the main loop
Commit(pr, el) ==
    /\ element' = el
    /\ state' = pr.state
    /\ queue' = pr.queue
    /\ stack' = pr.stack
    /\ indent_stack' = pr.indent_stack
    /\ measurements' = pr.log
    /\ shortcuts' = pr.shortcuts
    /\ entry_modes' = pr.entry_modes
    /\ result' = IF pr.err = NoErr THEN Running ELSE Failed(pr.err)

\* the while loop of print_with_indent run to its end, from the printer pr
RECURSIVE PrintLoop(_)
PrintLoop(pr) ==
    IF pr.err # NoErr \/ QIsEmpty(pr.queue) THEN pr
    ELSE PrintLoop(AfterElement(print_element([pr EXCEPT !.queue = QAfterPop(@)],
                                              Head(Last(pr.queue)))))

\* Printer::new(options).print_with_indent(document, 0)
print_with_indent(doc) ==
    PrintLoop([state |-> NewPrinterState, queue |-> NewQueue(doc), stack |-> NewCallStack,
               indent_stack |-> NewIndentStack(Level(0)), err |-> NoErr, log |-> <<>>,
               shortcuts |-> <<>>, entry_modes |-> <<>>])

\* One iteration of the while loop of print_with_indent: print_element on the element
\* queue.pop() gives, then the flush when the queue ran empty.
MainLoop ==
    /\ Commit(AfterElement(print_element(
                  [state |-> state, queue |-> QAfterPop(queue), stack |-> stack,
                   indent_stack |-> indent_stack, err |-> NoErr, log |-> <<>>,
                   shortcuts |-> <<>>, entry_modes |-> <<>>],
                  Head(Last(queue)))),
              Head(Last(queue)))
    /\ UNCHANGED <<options, document, other_vars>>

\* the arms of the match in print_element
ArmSpace(el) == el.t \in {"Space", "HardSpace"}
ArmText(el) == el.t = "Text"
ArmLine(el) == el.t = "Line"
ArmExpandParent(el) == el.t = "ExpandParent"
ArmLineSuffixBoundary(el) == el.t = "LineSuffixBoundary"
ArmBestFitting(el) == el.t = "BestFitting"
ArmInterned(el) == el.t = "Interned"
ArmStartGroup(el) == IsStart(el, "Group")
ArmStartFill(el) == IsStart(el, "Fill")
ArmStartIndent(el) == IsStart(el, "Indent")
ArmStartDedent(el) == IsStart(el, "Dedent")
ArmStartAlign(el) == IsStart(el, "Align")
ArmStartConditionalContent(el) == IsStart(el, "ConditionalContent")
ArmStartIndentIfGroupBreaks(el) == IsStart(el, "IndentIfGroupBreaks")
ArmStartLineSuffix(el) == IsStart(el, "LineSuffix")
ArmStartVerbatim(el) == IsStart(el, "Verbatim")
ArmStartOther(el) == el.t = "Start" /\ el.kind \in {"Labelled", "Entry"}
ArmEndOther(el) ==
    el.t = "End" /\ el.kind \in {"Labelled", "Entry", "Group", "ConditionalContent",
                                 "Verbatim", "Fill"}
ArmEndIndentIfGroupBreaks(el) == IsEnd(el, "IndentIfGroupBreaks")
ArmEndIndent(el) ==
    el.t = "End" /\ el.kind \in {"Indent", "Align", "LineSuffix"}
ArmEndDedent(el) == IsEnd(el, "Dedent")

\* One action for each arm: while let Some(element) = queue.pop(), and the arm matches
StepSpace ==
    /\ result = Running /\ queue # <<>>
    /\ ArmSpace(Head(Last(queue)))
    /\ MainLoop

StepText ==
    /\ result = Running /\ queue # <<>>
    /\ ArmText(Head(Last(queue)))
    /\ MainLoop

StepLine ==
    /\ result = Running /\ queue # <<>>
    /\ ArmLine(Head(Last(queue)))
    /\ MainLoop

StepExpandParent ==
    /\ result = Running /\ queue # <<>>
    /\ ArmExpandParent(Head(Last(queue)))
    /\ MainLoop

StepLineSuffixBoundary ==
    /\ result = Running /\ queue # <<>>
    /\ ArmLineSuffixBoundary(Head(Last(queue)))
    /\ MainLoop

StepBestFitting ==
    /\ result = Running /\ queue # <<>>
    /\ ArmBestFitting(Head(Last(queue)))
    /\ MainLoop

StepInterned ==
    /\ result = Running /\ queue # <<>>
    /\ ArmInterned(Head(Last(queue)))
    /\ MainLoop

StepStartGroup ==
    /\ result = Running /\ queue # <<>>
    /\ ArmStartGroup(Head(Last(queue)))
    /\ MainLoop

StepStartFill ==
    /\ result = Running /\ queue # <<>>
    /\ ArmStartFill(Head(Last(queue)))
    /\ MainLoop

StepStartIndent ==
    /\ result = Running /\ queue # <<>>
    /\ ArmStartIndent(Head(Last(queue)))
    /\ MainLoop

StepStartDedent ==
    /\ result = Running /\ queue # <<>>
    /\ ArmStartDedent(Head(Last(queue)))
    /\ MainLoop

StepStartAlign ==
    /\ result = Running /\ queue # <<>>
    /\ ArmStartAlign(Head(Last(queue)))
    /\ MainLoop

StepStartConditionalContent ==
    /\ result = Running /\ queue # <<>>
    /\ ArmStartConditionalContent(Head(Last(queue)))
    /\ MainLoop

StepStartIndentIfGroupBreaks ==
    /\ result = Running /\ queue # <<>>
    /\ ArmStartIndentIfGroupBreaks(Head(Last(queue)))
    /\ MainLoop

StepStartLineSuffix ==
    /\ result = Running /\ queue # <<>>
    /\ ArmStartLineSuffix(Head(Last(queue)))
    /\ MainLoop

StepStartVerbatim ==
    /\ result = Running /\ queue # <<>>
    /\ ArmStartVerbatim(Head(Last(queue)))
    /\ MainLoop

StepStartOther ==
    /\ result = Running /\ queue # <<>>
    /\ ArmStartOther(Head(Last(queue)))
    /\ MainLoop

StepEndOther ==
    /\ result = Running /\ queue # <<>>
    /\ ArmEndOther(Head(Last(queue)))
    /\ MainLoop

StepEndIndentIfGroupBreaks ==
    /\ result = Running /\ queue # <<>>
    /\ ArmEndIndentIfGroupBreaks(Head(Last(queue)))
    /\ MainLoop

StepEndIndent ==
    /\ result = Running /\ queue # <<>>
    /\ ArmEndIndent(Head(Last(queue)))
    /\ MainLoop

StepEndDedent ==
    /\ result = Running /\ queue # <<>>
    /\ ArmEndDedent(Head(Last(queue)))
    /\ MainLoop


\* the queue is empty: print returns Ok(Printed)
Finish ==
    /\ result = Running
    /\ queue = <<>>
    /\ result' = Ok
    /\ UNCHANGED <<options, document, queue, stack, indent_stack, state, element, measurements,
                   shortcuts, entry_modes, other_vars>>

Next ==
    \/ StepSpace
    \/ StepText
    \/ StepLine
    \/ StepExpandParent
    \/ StepLineSuffixBoundary
    \/ StepBestFitting
    \/ StepInterned
    \/ StepStartGroup
    \/ StepStartFill
    \/ StepStartIndent
    \/ StepStartDedent
    \/ StepStartAlign
    \/ StepStartConditionalContent
    \/ StepStartIndentIfGroupBreaks
    \/ StepStartLineSuffix
    \/ StepStartVerbatim
    \/ StepStartOther
    \/ StepEndOther
    \/ StepEndIndentIfGroupBreaks
    \/ StepEndIndent
    \/ StepEndDedent
    \/ Finish

Spec == Init /\ [][Next]_vars

-----------------------------------------------------------------------------
(* Properties *)

\* the column width of a text: the sum of the widths of its characters
RECURSIVE TextWidth(_)
TextWidth(s) == IF s = <<>> THEN 0 ELSE CharWidth(Head(s)) + TextWidth(Tail(s))

\* texts of one line
LineTexts == {s \in Texts : \A i \in 1..Len(s) : s[i] # "\n"}

\* print returned Ok(Printed) for the document raw
PrintedDocument(raw) == result = Ok /\ document = propagate_expands(raw)

\* what C1 says Group [text a, SoftOrSpace, text b] prints as
PairOutput(a, b) ==
    IF TextWidth(a) + 1 + TextWidth(b) <= options.print_width
    THEN a \o <<" ">> \o b
    ELSE a \o options.line_ending \o b

\* C1 as stated: the document Group [text a, SoftOrSpace, text b] prints as a, one space,
\* b when width(a) + 1 + width(b) <= print_width, and as a, newline, b when it is greater,
\* for all texts a and b of one line.
C1_AsStated ==
    \A a, b \in LineTexts : PrintedDocument(GroupPair(a, b)) => state.buffer = PairOutput(a, b)

\* C1: the document Group [text a, SoftOrSpace, text b], a and b texts of one line and a not
\* empty, prints as a, one space, b when width(a) + 1 + width(b) <= print_width (the limit
\* is inclusive), and as a, newline, b when it is greater.
C1_GroupPairBoundary ==
    \A a, b \in LineTexts :
        PrintedDocument(GroupPair(a, b)) /\ a # <<>> => state.buffer = PairOutput(a, b)

\* "foo", SoftOrSpace, "barbaz" printed at print_width 9: the line is broken
C1_Witness ==
    /\ PrintedDocument(GroupPair(Foo, Barbaz))
    /\ options.print_width = 9
    /\ state.buffer = Foo \o options.line_ending \o Barbaz

\* the elements still to print, in the order the queue pops them
RECURSIVE QRest(_)
QRest(q) == IF q = <<>> THEN <<>> ELSE Last(q) \o QRest(Front(q))

\* the main loop has just processed the start tag at document[i], a Group's
GroupEntered(i) ==
    /\ IsStart(document[i], "Group")
    /\ element = document[i]
    /\ result = Running
    /\ QRest(queue) = SubSeq(document, i + 1, Len(document))
    /\ Last(stack).kind = "Group"

\* the content of the Group that starts at document[i]
GroupContent(i) == SubSeq(document, i + 1, GroupEnd(document, i + 1, 1) - 1)

\* what follows the end tag of that Group, up to the next Line element
RECURSIVE UpToLine(_)
UpToLine(els) ==
    IF els = <<>> \/ Head(els).t = "Line" THEN <<>> ELSE <<Head(els)>> \o UpToLine(Tail(els))
AfterGroup(i) == UpToLine(SubSeq(document, GroupEnd(document, i + 1, 1) + 1, Len(document)))

\* one-line texts, spaces, Soft and SoftOrSpace lines, and the tags of groups and
\* indent regions: content that has one flat rendering
FlatElement(el) ==
    \/ el.t = "Text" /\ \A k \in 1..Len(el.text) : el.text[k] # "\n"
    \/ el.t = "Space"
    \/ el.t = "Line" /\ el.mode \in {"Soft", "SoftOrSpace"}
    \/ el.t = "Start" /\ el.kind = "Group" /\ el.mode = "Flat"
    \/ el.t = "End" /\ el.kind \in {"Group", "Indent"}
FlatContent(els) == \A k \in 1..Len(els) : FlatElement(els[k])

\* the columns of the flat rendering: a text its width, a space and a SoftOrSpace line one
RECURSIVE FlatWidth(_)
FlatWidth(els) ==
    IF els = <<>> THEN 0
    ELSE FlatWidth(Tail(els))
         + (CASE Head(els).t = "Text" -> TextWidth(Head(els).text)
              [] Head(els).t = "Space" -> 1
              [] Head(els).t = "Line" /\ Head(els).mode = "SoftOrSpace" -> 1
              [] OTHER -> 0)

\* the columns the line holds once the pending indentation and space are written
Column ==
    state.line_width + state.pending_indent.level * options.indent_width
    + state.pending_indent.align + (IF state.pending_space THEN 1 ELSE 0)

RECURSIVE ContainsBreak(_)
ContainsBreak(els) ==
    \E k \in 1..Len(els) :
        \/ els[k].t = "ExpandParent"
        \/ els[k].t = "Line" /\ els[k].mode \in {"Hard", "Empty"}
        \/ els[k].t = "Interned" /\ ContainsBreak(els[k].content)

\* document[j] is a Soft or SoftOrSpace line directly inside the Group that starts at
\* document[i]: no group between the two holds it
DirectSoftLine(i, j) ==
    /\ i < j /\ j < GroupEnd(document, i + 1, 1)
    /\ document[j].t = "Line" /\ document[j].mode \in {"Soft", "SoftOrSpace"}
    /\ \A k \in (i + 1)..(j - 1) :
           IsStart(document[k], "Group") => GroupEnd(document, k + 1, 1) < j

\* the main loop has just processed document[j]
Processed(j) ==
    /\ element = document[j]
    /\ result = Running
    /\ QRest(queue) = SubSeq(document, j + 1, Len(document))

\* the output is at the start of a line: nothing was printed yet, or a line break was last
AtLineStart ==
    /\ state.line_width = 0
    /\ ~state.pending_space
    /\ \/ state.buffer = <<>>
       \/ /\ Len(state.buffer) >= Len(options.line_ending)
          /\ SubSeq(state.buffer, Len(state.buffer) - Len(options.line_ending) + 1,
                    Len(state.buffer)) = options.line_ending

C4_MeasurementKeepsOutput ==
    \A k \in 1..Len(measurements) :
        /\ measurements[k].after.buffer = measurements[k].before.buffer
        /\ measurements[k].after.line_width = measurements[k].before.line_width
        /\ measurements[k].after.pending_indent = measurements[k].before.pending_indent
        /\ measurements[k].after.pending_space = measurements[k].before.pending_space

\* a measurement that started on a line with text and a pending space, counted further
\* text, and ended with does-not-fit
C4_Witness ==
    \E k \in 1..Len(measurements) :
        /\ measurements[k].finished
        /\ measurements[k].fits = "No"
        /\ measurements[k].before.buffer # <<>>
        /\ measurements[k].before.line_width > 0
        /\ measurements[k].before.pending_space

\* C5: the Fill of the items "1", "2", "3" with the separator "," and a SoftOrSpace
\* line, printed at top level, gives "1, 2," newline "3" at print_width 4 (and up to 6,
\* the last width "1, 2, 3" does not fit in): the first pair flat, the separator after
\* "2" expanded, "3" at column 0.  From print_width 7 on it gives "1, 2, 3".
C5_FillExample ==
    PrintedDocument(FillOf(Digits)) =>
        /\ options.print_width \in 4..6 =>
               state.buffer = Flatten(<<<<"1", ",", " ", "2", ",">>, options.line_ending, <<"3">>>>)
        /\ options.print_width >= 7 => state.buffer = <<"1", ",", " ", "2", ",", " ", "3">>

\* the Fill printed at print_width 4
C5_Witness ==
    /\ PrintedDocument(FillOf(Digits))
    /\ options.print_width = 4
    /\ state.buffer = Flatten(<<<<"1", ",", " ", "2", ",">>, options.line_ending, <<"3">>>>)

\* a variant of VariantLists: its text, its flat width, its two renderings
VariantText(v) == v[2].text
VariantWidth(v) == TextWidth(VariantText(v)) + 2
VariantFlat(v) == VariantText(v) \o <<" ", "y">>
VariantExpanded(v) == VariantText(v) \o options.line_ending \o <<"y">>

\* the variants but the last that fit in the print width, by their indexes
FittingVariants(vs) == {j \in 1..(Len(vs) - 1) : VariantWidth(vs[j]) <= options.print_width}
FirstFitting(vs) == CHOOSE j \in FittingVariants(vs) : \A k \in FittingVariants(vs) : j <= k

\* the main loop has just printed the best-fitting element the document consists of
BestFittingPrinted(vs) ==
    /\ document = <<BestFitting(vs)>>
    /\ element = document[1]
    /\ result = Running

\* C6: a best-fitting element printed at the root (no cached fits verdict): the variants
\* but the last are measured in order, one measurer each, up to the first that fits; that
\* one is printed flat, with its own content.  If none of them fits, the last variant is
\* printed expanded and no measurer is ever created for it.
C6_BestFittingSelection ==
    \A vs \in VariantLists :
        BestFittingPrinted(vs) =>
            IF FittingVariants(vs) # {}
            THEN /\ Len(measurements) = FirstFitting(vs)
                 /\ \A j \in 1..(FirstFitting(vs) - 1) : measurements[j].fits = "No"
                 /\ measurements[FirstFitting(vs)].fits = "Yes"
                 /\ state.buffer = VariantFlat(vs[FirstFitting(vs)])
            ELSE /\ Len(measurements) = Len(vs) - 1
                 /\ \A j \in 1..(Len(vs) - 1) : measurements[j].fits = "No"
                 /\ state.buffer = VariantExpanded(vs[Len(vs)])

\* three variants, neither of the first two fits: the last one is printed expanded
\* although its first line is wider than the print width
C6_Witness ==
    \E vs \in VariantLists :
        /\ BestFittingPrinted(vs)
        /\ Len(vs) = 3
        /\ FittingVariants(vs) = {}
        /\ Len(measurements) = 2
        /\ TextWidth(VariantText(vs[3])) > options.print_width
        /\ state.buffer = VariantExpanded(vs[3])

\* one level of indentation as it is written: a tab, or indent_width spaces
OneIndent == IF options.indent_style = "Tab" THEN <<"\t">> ELSE Rep(" ", options.indent_width)

\* C7 as stated: with space indentation of width 2 the document [StartIndent, "x",
\* EndIndent, Hard line, "y"] prints as two spaces, "x", newline, "y".
C7_AsStated ==
    /\ PrintedDocument(<<StartIndent, Text(X(1)), EndIndent, Line("Hard"), Text(<<"y">>)>>)
    /\ options.indent_style = "Space"
    => state.buffer = <<" ", " ", "x">> \o options.line_ending \o <<"y">>

\* C7: the indentation of an Indent region is written before the first text after a line
\* break inside the region, not before a text that follows the start tag on the same
\* line.  [StartIndent, "x", EndIndent, Hard line, "y"] prints as "x", newline, "y";
\* [StartIndent, Hard line, "x", EndIndent, Hard line, "y"] prints as one level of
\* indentation, "x", newline, "y".  The text after the region is at level zero in both.
C7_IndentAfterLineBreak ==
    /\ PrintedDocument(<<StartIndent, Text(X(1)), EndIndent, Line("Hard"), Text(<<"y">>)>>)
       => state.buffer = <<"x">> \o options.line_ending \o <<"y">>
    /\ PrintedDocument(<<StartIndent, Line("Hard"), Text(X(1)), EndIndent, Line("Hard"),
                         Text(<<"y">>)>>)
       => state.buffer = OneIndent \o <<"x">> \o options.line_ending \o <<"y">>

\* the second document printed with space indentation of width 2
C7_Witness ==
    /\ PrintedDocument(<<StartIndent, Line("Hard"), Text(X(1)), EndIndent, Line("Hard"),
                         Text(<<"y">>)>>)
    /\ options.indent_style = "Space" /\ options.indent_width = 2
    /\ state.buffer = <<" ", " ", "x">> \o options.line_ending \o <<"y">>

\* a document of text, space and line atoms only
AtomsOnly(els) == \A k \in 1..Len(els) : els[k].t \in {"Text", "Space", "HardSpace", "Line"}

\* the output has an open line: something was written since the last line break
LineOpen(out) == out # <<>> /\ Last(out) # "\n"

\* The rendering of the atoms els at the root, after the output out: a text follows what
\* is written, after one space if a space atom came since the last text of its line; a
\* line atom of any mode ends the open line, and an Empty one adds a blank line unless
\* the output already ends with one (blank).  The print width plays no part.
RECURSIVE PlainRender(_, _, _, _)
PlainRender(els, out, space, blank) ==
    IF els = <<>> THEN out
    ELSE CASE Head(els).t = "Text" ->
                PlainRender(Tail(els),
                            out \o (IF space THEN <<" ">> ELSE <<>>) \o Head(els).text,
                            FALSE, FALSE)
           [] Head(els).t \in {"Space", "HardSpace"} ->
                PlainRender(Tail(els), out, space \/ LineOpen(out), blank)
           [] Head(els).t = "Line" ->
                PlainRender(Tail(els),
                            out \o (IF LineOpen(out) THEN options.line_ending ELSE <<>>)
                                \o (IF Head(els).mode = "Empty" /\ (LineOpen(out) \/ ~blank)
                                    THEN options.line_ending ELSE <<>>),
                            FALSE,
                            Head(els).mode = "Empty" \/ (blank /\ ~LineOpen(out)))

\* C8: while a document of text, space and line atoms only is printed no fits measurer is
\* created, and the output is the rendering of the atoms, which does not depend on the
\* print width.
C8_AtomsOnly ==
    AtomsOnly(document) =>
        /\ measurements = <<>>
        /\ result = Ok => state.buffer = PlainRender(document, <<>>, FALSE, FALSE)

\* two texts wider than the print width, an Empty line between them
C8_Witness ==
    /\ result = Ok
    /\ document = <<Text(X(MaxTextLen)), Line("Empty"), Text(X(MaxTextLen))>>
    /\ options.print_width = 1
    /\ state.buffer = X(MaxTextLen) \o options.line_ending \o options.line_ending
                       \o X(MaxTextLen)

\* the main loop is about to pop an End tag
EndReached == result = Running /\ queue # <<>> /\ Head(Last(queue)).t = "End"
NextElement == Head(Last(queue))

\* print fails at the End tag the main loop pops: with StartTagMissing when only the root
\* frame is on the stack, with StartEndTagMismatch when the top frame is of another
\* kind; the element prints nothing
EndTagChecked ==
    /\ Last(stack).kind = "Root" =>
           /\ result' = Failed(StartTagMissing(NextElement.kind))
           /\ result'.type = "Err"
           /\ state'.buffer = state.buffer
    /\ Last(stack).kind \notin {"Root", NextElement.kind} =>
           /\ result' = Failed(StartEndTagMismatch(Last(stack).kind, NextElement.kind))
           /\ result'.type = "Err"
           /\ state'.buffer = state.buffer

\* an EndIndentIfGroupBreaks tag that names a group without a recorded mode
UnknownGroup(el) ==
    IsEnd(el, "IndentIfGroupBreaks") /\ get_print_mode(state.group_modes, el.id) = "None"

\* C9 as stated: every End tag the printer reaches with no start tag open makes print
\* fail with StartTagMissing, and with StartEndTagMismatch when the innermost open tag
\* is of another kind; nothing is printed at or after that element.
C9_AsStated == [][result = Running /\ (EndReached => EndTagChecked)]_vars

\* C9: an End tag the printer reaches with no start tag open makes print fail with
\* StartTagMissing, and with StartEndTagMismatch when the innermost open tag is of
\* another kind, unless it is an EndIndentIfGroupBreaks tag naming a group that has no
\* recorded mode; the failing element prints nothing and no step follows a failure.
C9_EndTagErrors ==
    [][result = Running /\ (EndReached /\ ~UnknownGroup(NextElement) => EndTagChecked)]_vars

\* [StartIndent, "x", EndGroup, "y"]: print failed at EndGroup, after "x" and before "y"
C9_Witness ==
    /\ document = <<StartIndent, Text(X(1)), EndGroup, Text(<<"y">>)>>
    /\ element = EndGroup
    /\ result = Failed(StartEndTagMismatch("Indent", "Group"))
    /\ state.buffer = X(1)

\* print has ended for a Fill whose item or separator position holds something other
\* than an Entry (plain content, another tag, an End tag, the end of the document)
MalformedFillPrinted == result # Running /\ document \in MalformedFills

\* print has ended for a BestFitting whose first variant does not start with the Entry tag
MalformedVariantPrinted ==
    /\ result # Running
    /\ \E vs \in MalformedVariantLists :
           /\ ~IsStartEntry(vs[1])
           /\ document \in {<<BestFitting(vs)>>, <<BestFitting(vs), Text(X(MaxTextLen))>>}

\* print failed with ExpectedStart naming Entry as the expected start
ExpectedEntry ==
    /\ result.type = "Err"
    /\ result.error.type = "ExpectedStart"
    /\ result.error.a = "Entry"

\* C10 as stated: when fill item/separator processing or best-fitting variant processing
\* finds the cursor at anything other than an Entry start tag, print fails with
\* ExpectedStart naming Entry, and the malformed content is not printed.
C10_AsStated ==
    MalformedFillPrinted \/ MalformedVariantPrinted => ExpectedEntry /\ state.buffer = <<>>

\* C10, the best-fitting half: a variant that does not start with the Entry tag makes
\* print fail with ExpectedStart naming Entry and the kind of what was found, and nothing
\* of the variant is printed.
C10_BestFittingExpectedStart ==
    MalformedVariantPrinted =>
        /\ ExpectedEntry
        /\ result.error.b \in {"EndOfDocument", "Start", "End", "Content"}
        /\ state.buffer = <<>>

\* C10, the fill half as the code has it: the fill loop stops at the first position that
\* is not an Entry and, since that position is not EndFill, print fails with
\* StartEndTagMismatch naming Fill twice; ExpectedStart is never the error.
C10_FillEndTagError ==
    MalformedFillPrinted => result = Failed(StartEndTagMismatch("Fill", "Fill"))

\* Group[StartFill, "x", EndFill]: the group was measured to fit, the fill was entered by
\* the flat shortcut and the text in place of an item was printed without an error
C10_Witness ==
    /\ document = Group(<<StartFill, Text(X(1)), EndFill>>)
    /\ result = Ok
    /\ state.buffer = X(1)

\* [StartFill, "x", EndFill] at the root: print failed, and not with ExpectedStart
C10_FillWitness ==
    /\ document = <<StartFill, Text(X(1)), EndFill>>
    /\ result = Failed(StartEndTagMismatch("Fill", "Fill"))

\* [BestFitting["x", variant]]: print failed with ExpectedStart before printing
C10_BestFittingWitness ==
    /\ document = <<BestFitting(<<<<Text(X(1))>>, Variant("c", 1)>>)>>
    /\ result = Failed(ExpectedStart("Entry", "Content"))
    /\ state.buffer = <<>>

\* the document is one of the line-suffix family
SuffixDocument == document \in LineSuffixDocuments

\* the characters of the suffix contents of the family
SuffixChars == {"c", "d"}

\* The rendering of a document of the family, after the output out: the content of a
\* LineSuffix region is kept (pending) and written, in the order it was queued, when a
\* line breaks, at a LineSuffixBoundary and at the end of the document; the line break
\* comes once, after it.  A Soft or SoftOrSpace line of a group printed flat breaks
\* nothing and leaves the pending content alone.
RECURSIVE SuffixRender(_, _, _, _, _, _)
SuffixRender(els, out, pending, flat, space, in_suffix) ==
    IF els = <<>> THEN out \o pending
    ELSE LET el == Head(els)
             rest == Tail(els)
         IN CASE IsStart(el, "LineSuffix") -> SuffixRender(rest, out, pending, flat, space, TRUE)
              [] IsEnd(el, "LineSuffix") -> SuffixRender(rest, out, pending, flat, space, FALSE)
              [] IsStart(el, "Group") ->
                    SuffixRender(rest, out, pending,
                                 get_print_mode(state.group_modes, el.id) = "Flat", space, FALSE)
              [] IsEnd(el, "Group") -> SuffixRender(rest, out, pending, FALSE, space, FALSE)
              [] el.t = "Text" /\ in_suffix ->
                    SuffixRender(rest, out, pending \o el.text, flat, space, TRUE)
              [] el.t = "Text" /\ ~in_suffix ->
                    SuffixRender(rest, out \o (IF space THEN <<" ">> ELSE <<>>) \o el.text,
                                 pending, flat, FALSE, FALSE)
              [] el.t = "LineSuffixBoundary" ->
                    SuffixRender(rest,
                                 IF pending = <<>> THEN out
                                 ELSE out \o pending \o options.line_ending,
                                 <<>>, flat, space, FALSE)
              [] el.t = "Line" /\ flat /\ el.mode \in {"Soft", "SoftOrSpace"} ->
                    SuffixRender(rest, out, pending, flat,
                                 el.mode = "SoftOrSpace" /\ LineOpen(out), FALSE)
              [] el.t = "Line" /\ ~(flat /\ el.mode \in {"Soft", "SoftOrSpace"}) ->
                    SuffixRender(rest,
                                 out \o pending
                                     \o (IF LineOpen(out \o pending) THEN options.line_ending
                                         ELSE <<>>)
                                     \o (IF el.mode = "Empty" THEN options.line_ending ELSE <<>>),
                                 <<>>, flat, FALSE, FALSE)

\* C11: the content of a LineSuffix region is not written where it is met: while it is
\* pending nothing of it is in the output; it is written when a line really breaks, at a
\* LineSuffixBoundary or at the end of the document, all the pending regions in the order
\* they were queued, before the line break that made them flush, which then comes once
\* after them.  A Soft or SoftOrSpace line printed flat does not flush.
C11_LineSuffixFlush ==
    SuffixDocument =>
        /\ state.line_suffixes # <<>> =>
               \A k \in 1..Len(state.buffer) : state.buffer[k] \notin SuffixChars
        /\ result \in {Running, Ok}
        /\ result = Ok =>
               state.buffer = SuffixRender(document, <<>>, <<>>, FALSE, FALSE, FALSE)

\* ["x", suffix "c", suffix "d", Hard line, "y"] printed "xcd", one line break, "y"
C11_Witness ==
    /\ document = <<Text(X(1))>> \o Suffix(<<"c">>) \o Suffix(<<"d">>)
                    \o <<Line("Hard"), Text(<<"y">>)>>
    /\ result = Ok
    /\ state.buffer = <<"x", "c", "d", "\n", "y">>

\* Group [ "x", suffix "c", SoftOrSpace, "y" ] printed flat: the line did not flush, the
\* suffix came at the end of the document
C11_FlatWitness ==
    /\ document = GroupWith(1, <<Text(X(1))>> \o Suffix(<<"c">>)
                                \o <<Line("SoftOrSpace"), Text(<<"y">>)>>)
    /\ result = Ok
    /\ state.buffer = <<"x", " ", "y", "c">>

\* the text <<ch>> occurs in the elements, the variants of a best-fitting element included
RECURSIVE HasChar(_, _)
HasChar(els, ch) ==
    \E k \in 1..Len(els) :
        \/ els[k].t = "Text" /\ els[k].text = <<ch>>
        \/ els[k].t = "BestFitting"
             /\ \E v \in 1..Len(els[k].variants) : HasChar(els[k].variants[v], ch)

\* how often the character ch is in the output
RECURSIVE Count(_, _)
Count(out, ch) ==
    IF out = <<>> THEN 0 ELSE (IF Head(out) = ch THEN 1 ELSE 0) + Count(Tail(out), ch)

\* C12, what holds of it: when print returns Ok the line-suffix store is empty, and the
\* content of every LineSuffix region of the document ("c", "d") is in the output exactly
\* once, also when the region is the last element of the document with no line break
\* after it.
C12_SuffixesEmittedOnce ==
    result = Ok =>
        /\ state.line_suffixes = <<>>
        /\ document \in LineSuffixDocuments \cup NestedSuffixDocuments =>
               \A ch \in SuffixChars :
                   Count(state.buffer, ch) = IF HasChar(document, ch) THEN 1 ELSE 0

\* ["x", suffix "c"]: the region is the last element, "c" was written at the end
C12_Witness ==
    /\ document = <<Text(X(1))>> \o Suffix(<<"c">>)
    /\ result = Ok
    /\ state.line_suffixes = <<>>
    /\ state.buffer = <<"x", "c">>

\* C12 as stated: every LineSuffix region of a well-formed document is emitted exactly
\* once: print returns Ok with an empty line-suffix store and the content of each region
\* once in the output.
C12_AsStated ==
    /\ result # Running
    /\ document \in LineSuffixDocuments \cup NestedSuffixDocuments \cup GroupedSuffixDocuments
    => /\ result = Ok
       /\ state.line_suffixes = <<>>
       /\ \A ch \in SuffixChars :
              Count(state.buffer, ch) = IF HasChar(document, ch) THEN 1 ELSE 0

\* ["x", LineSuffix [ Group ["c"] ], Hard line, "y"]: the Hard line flushed the region, the
\* measurement of its group ran into the EndLineSuffix tag the flush queued and print
\* failed; "c" was not written
C12_GroupedSuffixFails ==
    /\ document = <<Text(X(1)), StartLineSuffix>> \o Group(<<Text(<<"c">>)>>)
                    \o <<EndLineSuffix, Line("Hard"), Text(<<"y">>)>>
    /\ result = Failed(StartEndTagMismatch("LineSuffix", "LineSuffix"))
    /\ state.buffer = X(1)

\* the measurers created in the last step that were dropped without finish
Unfinished == {k \in 1..Len(measurements) : ~measurements[k].finished}

\* C13 as stated: every measurer that is created is finished, whether the measurement
\* says fits, says does not fit, or returns an error.
C13_AsStated == Unfinished = {}

\* C13, what holds of it: a measurer that is not finished is one of print_fill_entries
\* (created by new_flat) whose measurement returned an error or failed the assertion; the
\* measurers of Printer::fits are finished on every path, an error included.
C13_FinishedUnlessFillError ==
    \A k \in Unfinished : measurements[k].must_be_flat /\ measurements[k].fits = "Err"

\* [StartFill, StartEntry, "x", EndGroup, EndEntry, EndFill]: the measurement of the first
\* item returned an error and the measurer was dropped
C13_Witness ==
    /\ document = <<StartFill>> \o StrayEntry(<<Text(X(1))>>) \o <<EndFill>>
    /\ result = Failed(StartEndTagMismatch("Entry", "Group"))
    /\ Len(measurements) = 1
    /\ ~measurements[1].finished

\* a measurer of Printer::fits whose measurement returned an error, finished
C13_FitsErrorFinished ==
    \E k \in 1..Len(measurements) :
        /\ ~measurements[k].must_be_flat
        /\ measurements[k].fits = "Err"
        /\ measurements[k].finished

\* the printer takes StartGroup of a group with an id and goes on
GroupWithIdEntered ==
    /\ result = Running /\ queue # <<>> /\ ArmStartGroup(Head(Last(queue)))
    /\ Head(Last(queue)).id # 0
    /\ result' = Running

\* the outputs of the documents of GroupModeDocuments in which every reader of id 1 sees
\* the mode the group's own line was printed in
GroupModeOutputs(a) ==
    IF document = IdGroupThenIndent(a)
    THEN {a \o <<" ", "x", "f", "F", "\n", "y">>,
          a \o <<"\n", "x", "e", "E", "\n", " ", " ", "y">>}
    ELSE IF document = IdGroupEnclosed(a)
    THEN {<<"p", " ">> \o a \o <<" ", "x", "f", "F">>,
          <<"p", "\n">> \o a \o <<" ", "x", "f", "F">>,
          <<"p", "\n">> \o a \o <<"\n", "x", "e", "E">>}
    ELSE {a \o <<" ", "x", "f", "F", " ", "r">>, a \o <<" ", "x", "f", "F", "\n", "r">>,
          a \o <<"\n", "x", "e", "E", " ", "r">>, a \o <<"\n", "x", "e", "E", "\n", "r">>}

GroupModeDocument(a) ==
    document \in {IdGroupThenIndent(a), IdGroupEnclosed(a), IdGroupThenGroup(a)}

\* C14: when the printer enters a group that has an id, the mode of the frame it pushes
\* for the group is the mode stored under the id before the next element is taken; and a
\* ConditionalContent or IndentIfGroupBreaks naming the id, inside the group, after it or
\* inside a later group, is printed for the mode the group's own line break was printed in.
C14_GroupModeStoredFirst ==
    /\ [][GroupWithIdEntered =>
             get_print_mode(state'.group_modes, Head(Last(queue)).id) = StackTop(stack')]_vars
    /\ [](\A a \in ShortTexts :
             GroupModeDocument(a) =>
                 /\ result \in {Running, Ok}
                 /\ result = Ok => state.buffer \in GroupModeOutputs(a))

\* group 1 was printed expanded and the later group 2 flat: the readers inside group 2
\* printed for the mode of group 1
C14_Witness ==
    /\ document = IdGroupThenGroup(X(MaxTextLen)) /\ result = Ok
    /\ state.buffer = X(MaxTextLen) \o <<"\n", "x", "e", "E", " ", "r">>

\* a well-formed document with one Verbatim region
VerbatimDocument ==
    document \in {<<StartVerbatim, Text(X(1)), EndVerbatim>>,
                  <<StartVerbatim, Text(X(1)), EndVerbatim, Text(<<"y">>)>>}

\* C15, as stated: printing a document with a Verbatim region succeeds (and the result
\* lists a range covering the region).
C15_AsStated == VerbatimDocument /\ result # Running => result = Ok

\* C15, what the code does: the StartVerbatim arm is todo!(), so the print of such a
\* document panics at the start tag with nothing of the region written.
C15_VerbatimPanics ==
    VerbatimDocument /\ result # Running =>
        result = Failed(Panic("not yet implemented")) /\ state.buffer = <<>>

C15_Witness ==
    /\ document = <<StartVerbatim, Text(X(1)), EndVerbatim>>
    /\ result = Failed(Panic("not yet implemented"))
    /\ element = StartVerbatim

\* One iteration of the while loop on an element (every action of Next but Finish)
Iteration == Next /\ queue # <<>>

\* The scheduling of a sequential program: the loop goes on while it can.  Finish is
\* taken when it is enabled, and so is an iteration of the loop, whose enabling condition
\* (the print is running and the queue holds an element) is written out.
FairSpec ==
    /\ Spec
    /\ WF_vars(Finish)
    /\ (([]<>(result # Running \/ queue = <<>>)) \/ []<><<Iteration>>_vars)

\* the work an element stands for: itself and the elements it can put on the queue
RECURSIVE Weight(_), WeightAll(_)
Weight(el) ==
    IF el.t = "Interned" THEN 2 + WeightAll(el.content)
    ELSE IF el.t = "BestFitting" THEN 2 + WeightAll(Flatten(el.variants))
    ELSE 2
WeightAll(els) == IF els = <<>> THEN 0 ELSE Weight(Head(els)) + WeightAll(Tail(els))

\* a stored suffix element stands for itself, the args of a region for its end tag, and
\* for one more than the end tag so that taking the region off the store is progress
RECURSIVE StoredWork(_)
StoredWork(suffixes) ==
    IF suffixes = <<>> THEN 0
    ELSE (IF Head(suffixes).t = "Suffix" THEN Weight(Head(suffixes).el) ELSE 3)
         + StoredWork(Tail(suffixes))

\* the work left while the print runs: the return from the loop, what is queued and what
\* is stored
WorkLeft ==
    IF result = Running
    THEN 1 + WeightAll(Flatten(queue)) + StoredWork(state.line_suffixes)
    ELSE 0

\* the head of the queue is an element of one of the arms of print_element
HeadHasArm ==
    \E el \in {Head(Last(queue))} :
        \/ ArmSpace(el) \/ ArmText(el) \/ ArmLine(el) \/ ArmExpandParent(el)
        \/ ArmLineSuffixBoundary(el) \/ ArmBestFitting(el) \/ ArmInterned(el)
        \/ ArmStartGroup(el) \/ ArmStartFill(el) \/ ArmStartIndent(el)
        \/ ArmStartDedent(el) \/ ArmStartAlign(el) \/ ArmStartConditionalContent(el)
        \/ ArmStartIndentIfGroupBreaks(el) \/ ArmStartLineSuffix(el)
        \/ ArmStartVerbatim(el) \/ ArmStartOther(el) \/ ArmEndOther(el)
        \/ ArmEndIndentIfGroupBreaks(el) \/ ArmEndIndent(el) \/ ArmEndDedent(el)

-----------------------------------------------------------------------------
(* oxc_parser, lexer/number.rs: parse_int.  A literal is a sequence of     *)
(* one-character strings; a byte is the character's ASCII code.            *)

\* the printer when another program runs: constructed on the empty document, returned
PrinterIdle ==
    /\ options = Options(MaxPrintWidth, "Space", LF)
    /\ document = <<>>
    /\ queue = NewQueue(<<>>)
    /\ stack = NewCallStack
    /\ indent_stack = NewIndentStack(Level(0))
    /\ state = NewPrinterState
    /\ element = Space
    /\ result = Ok
    /\ measurements = <<>>
    /\ shortcuts = <<>>
    /\ entry_modes = <<>>

\* bodies of literals up to this many bytes, next to the literals of the tests
MaxLiteralLen == 4

DecimalDigits == <<"0", "1", "2", "3", "4", "5", "6", "7", "8", "9">>
UpperLetters == <<"A", "B", "C", "D", "E", "F">>
LowerLetters == <<"a", "b", "c", "d", "e", "f">>

IndexOf(seq, c) == CHOOSE i \in 1..Len(seq) : seq[i] = c
InSeq(seq, c) == \E i \in 1..Len(seq) : seq[i] = c

\* s.as_bytes(): b'0' is 0x30, b'A' is 0x41, b'_' is 0x5F, b'a' is 0x61
AsByte(c) ==
    IF InSeq(DecimalDigits, c) THEN 47 + IndexOf(DecimalDigits, c)
    ELSE IF InSeq(UpperLetters, c) THEN 64 + IndexOf(UpperLetters, c)
    ELSE IF InSeq(LowerLetters, c) THEN 96 + IndexOf(LowerLetters, c)
    ELSE IF c = "_" THEN 95
    ELSE IF c = "O" THEN 79
    ELSE IF c = "X" THEN 88
    ELSE IF c = "o" THEN 111
    ELSE 120

\* what parse_int gives: a value, or a panic (a debug_assert!, an overflow
\* check, an unwrap)
Value(n) == [type |-> "Ok", value |-> n]
AssertFailed == [type |-> "Panic", value |-> <<>>]

\* A u64 and an integral f64 are written with digits of 16 bits (a u64 has four),
\* the least significant digit first and no leading zero: <<>> is 0, <<0, 1>> is 2^16.
\* The recursions on them are functions: their arguments are values when the
\* body is evaluated.
U64_BITS == 64
F64_MANTISSA_DIGITS == 53
DigitBits == U64_BITS \div 4
Base == 2^DigitBits

Wide == Seq(0..(Base - 1))
Bytes == Seq(STRING)

Num[n \in Nat] == IF n = 0 THEN <<>> ELSE <<n % Base>> \o Num[n \div Base]

Trimmed[a \in Wide] == IF a = <<>> \/ Last(a) # 0 THEN a ELSE Trimmed[Front(a)]

Digit(a, i) == IF i <= Len(a) THEN a[i] ELSE 0
Rest(a) == IF a = <<>> THEN <<>> ELSE Tail(a)

SumWithCarry[a \in Wide, b \in Wide, carry \in {0, 1}] ==
    IF a = <<>> /\ b = <<>> THEN Num[carry]
    ELSE LET t == Digit(a, 1) + Digit(b, 1) + carry
         IN  <<t % Base>> \o SumWithCarry[Rest(a), Rest(b), t \div Base]

Sum(a, b) == SumWithCarry[a, b, 0]

\* a * n + carry for a small n
ProductWithCarry[a \in Wide, n \in 1..Base, carry \in Nat] ==
    IF a = <<>> THEN Num[carry]
    ELSE LET t == a[1] * n + carry
         IN  <<t % Base>> \o ProductWithCarry[Tail(a), n, t \div Base]

Product(a, n) == ProductWithCarry[a, n, 0]

\* a << k and a >> k
ShiftedLeft(a, k) ==
    IF a = <<>> THEN <<>>
    ELSE [i \in 1..(k \div DigitBits) |-> 0] \o Product(a, 2^(k % DigitBits))
ShiftedRight[a \in Wide, k \in Nat] ==
    LET high == SubSeq(a, (k \div DigitBits) + 1, Len(a))
        low == 2^(k % DigitBits)
    IN  Trimmed[[i \in 1..Len(high) |->
                    (high[i] \div low) + (Digit(high, i + 1) % low) * (Base \div low)]]

\* the bit of 2^p, and whether a bit below it is set
BitAt(a, p) == (Digit(a, (p \div DigitBits) + 1) \div 2^(p % DigitBits)) % 2
BitsBelow(a, p) ==
    \/ Digit(a, (p \div DigitBits) + 1) % 2^(p % DigitBits) # 0
    \/ \E i \in 1..(p \div DigitBits) : Digit(a, i) # 0

BitsOfDigit[n \in Nat] == IF n = 0 THEN 0 ELSE 1 + BitsOfDigit[n \div 2]
BitLength(a) == IF a = <<>> THEN 0 ELSE DigitBits * (Len(a) - 1) + BitsOfDigit[Last(a)]

\* u64 arithmetic keeps the low 64 bits
Overflows(a) == BitLength(a) > U64_BITS
wrapping(a) == Trimmed[SubSeq(a, 1, Min(Len(a), U64_BITS \div DigitBits))]

\* result |= n for a byte n
OrOfDigits[m \in Nat, n \in Nat] ==
    IF m = 0 THEN n
    ELSE IF n = 0 THEN m
    ELSE (IF (m % 2) + (n % 2) > 0 THEN 1 ELSE 0) + 2 * OrOfDigits[m \div 2, n \div 2]
BitOr(a, n) == IF a = <<>> THEN Num[n] ELSE <<OrOfDigits[a[1], n]>> \o Tail(a)

\* result as f64, and the rounding of every f64 operation: the 53 leading
\* bits, rounded to the nearest, a tie to the even one
as_f64[a \in Wide] ==
    IF BitLength(a) <= F64_MANTISSA_DIGITS THEN a
    ELSE LET drop == BitLength(a) - F64_MANTISSA_DIGITS
             kept == ShiftedRight[a, drop]
             above_half == BitAt(a, drop - 1) = 1 /\ BitsBelow(a, drop - 1)
             half_to_even == BitAt(a, drop - 1) = 1 /\ BitAt(a, drop) = 1
         IN  ShiftedLeft(IF above_half \/ half_to_even THEN Sum(kept, Num[1]) ELSE kept,
                         drop)

ResultAsF64(r) == IF r.type = "Ok" THEN Value(as_f64[r.value]) ELSE r

\* debug_assert!(b >= b'0' && b <= b'9'); b & 15
decimal_byte_to_value(b) == b % 16
DecimalByteAsserted(b) == b >= 48 /\ b <= 57
\* debug_assert!(b == b'0' || b == b'1'); b & 1
binary_byte_to_value(b) == b % 2
BinaryByteAsserted(b) == b = 48 \/ b = 49
\* debug_assert!(b >= b'0' && b <= b'7'); b & 7
octal_byte_to_value(b) == b % 8
OctalByteAsserted(b) == b >= 48 /\ b <= 55
\* if b < b'A' { b & 15 } else { (b & 15) + 9 }
hex_byte_to_value(b) == IF b < 65 THEN b % 16 ELSE (b % 16) + 9
HexByteAsserted(b) ==
    (b >= 48 /\ b <= 57) \/ (b >= 65 /\ b <= 70) \/ (b >= 97 /\ b <= 102)

\* literals longer than this take the slow path of their kind
MAX_FAST_DECIMAL_LEN == 19
MAX_FAST_BINARY_LEN == 64
MAX_FAST_OCTAL_LEN == 21
MAX_FAST_HEX_LEN == 16

WithoutUnderscores(s) == SelectSeq(s, LAMBDA c : c # "_")

\* the digit a character writes, and the integer a sequence of digits denotes
DigitOf(c) ==
    IF InSeq(DecimalDigits, c) THEN IndexOf(DecimalDigits, c) - 1
    ELSE IF InSeq(UpperLetters, c) THEN 9 + IndexOf(UpperLetters, c)
    ELSE 9 + IndexOf(LowerLetters, c)
\* (the digits are taken in their order, the first half and then the second one)
DenotedAfter[digits \in Bytes, radix \in Nat, before \in Wide] ==
    IF digits = <<>> THEN before
    ELSE IF Len(digits) > 1
    THEN DenotedAfter[SubSeq(digits, (Len(digits) \div 2) + 1, Len(digits)), radix,
                      DenotedAfter[SubSeq(digits, 1, Len(digits) \div 2), radix, before]]
    ELSE Sum(Product(before, radix), Num[DigitOf(Head(digits))])
Denoted[digits \in Bytes, radix \in Nat] == DenotedAfter[digits, radix, <<>>]

\* the arms of fallthrough! from the arm of len down to the arm of 1, on the u64 result:
\* every byte of s, the underscores too, goes through decimal_byte_to_value; result *= 10
\* and result += value panic on an overflow in a build that checks it, and wrap otherwise
DecimalFallthrough[s \in Bytes, arm \in Nat, acc \in Wide, debug \in BOOLEAN] ==
    IF arm = 0 THEN Value(acc)
    ELSE IF debug /\ ~DecimalByteAsserted(AsByte(s[Len(s) - arm + 1])) THEN AssertFailed
    ELSE LET next == Sum(Product(acc, 10),
                         Num[decimal_byte_to_value(AsByte(s[Len(s) - arm + 1]))])
         IN  IF debug /\ Overflows(next) THEN AssertFailed
             ELSE DecimalFallthrough[s, arm - 1, wrapping(next), debug]

\* s.parse::<f64>().unwrap() of a string of digits: the nearest f64
parse_decimal_slow(s, debug) ==
    IF \E i \in 1..Len(s) : ~DecimalByteAsserted(AsByte(s[i])) THEN AssertFailed
    ELSE Value(as_f64[Denoted[s, 10]])

\* parse_decimal without the test of MAX_FAST_DECIMAL_LEN
parse_decimal_unrolled(s, debug) ==
    IF debug /\ s = <<>> THEN AssertFailed
    ELSE ResultAsF64(DecimalFallthrough[s, Len(s), <<>>, debug])

parse_decimal(s, debug) ==
    IF debug /\ s = <<>> THEN AssertFailed
    ELSE IF Len(s) > MAX_FAST_DECIMAL_LEN THEN parse_decimal_slow(s, debug)
    ELSE ResultAsF64(DecimalFallthrough[s, Len(s), <<>>, debug])

parse_decimal_with_underscores(s, debug) ==
    IF debug /\ s = <<>> THEN AssertFailed
    ELSE IF Len(s) > MAX_FAST_DECIMAL_LEN
    THEN parse_decimal_slow(WithoutUnderscores(s), debug)
    ELSE ResultAsF64(DecimalFallthrough[s, Len(s), <<>>, debug])

ByteAsserted(radix, b) ==
    CASE radix = 2 -> BinaryByteAsserted(b)
      [] radix = 8 -> OctalByteAsserted(b)
      [] OTHER -> HexByteAsserted(b)

byte_to_value(radix, b) ==
    CASE radix = 2 -> binary_byte_to_value(b)
      [] radix = 8 -> octal_byte_to_value(b)
      [] OTHER -> hex_byte_to_value(b)

\* result <<= 1, result <<= 3, result <<= 4
ShiftOf(radix) == CASE radix = 2 -> 1 [] radix = 8 -> 3 [] OTHER -> 4

\* the loops of parse_binary, parse_octal and parse_hex and of their _with_underscores
\* forms on the u64 result: result <<= shift; result |= value, skipping b'_' when skip
\* is set; a shift drops the bits above the 64th.  The bytes are taken in their order,
\* the first half and then the second one, which keeps the evaluation shallow.
ShiftLoop[s \in Bytes, radix \in Nat, acc \in Wide, skip \in BOOLEAN, debug \in BOOLEAN] ==
    IF s = <<>> THEN Value(acc)
    ELSE IF Len(s) > 1
    THEN LET first == ShiftLoop[SubSeq(s, 1, Len(s) \div 2), radix, acc, skip, debug]
         IN  IF first.type # "Ok" THEN first
             ELSE ShiftLoop[SubSeq(s, (Len(s) \div 2) + 1, Len(s)), radix, first.value,
                            skip, debug]
    ELSE IF skip /\ Head(s) = "_" THEN Value(acc)
    ELSE IF debug /\ ~ByteAsserted(radix, AsByte(Head(s))) THEN AssertFailed
    ELSE Value(BitOr(wrapping(ShiftedLeft(acc, ShiftOf(radix))),
                     byte_to_value(radix, AsByte(Head(s)))))

\* the loops of the _slow forms on the f64 result: result.mul_add(radix, value), one
\* rounding for each byte
MulAddLoop[s \in Bytes, radix \in Nat, acc \in Wide, skip \in BOOLEAN, debug \in BOOLEAN] ==
    IF s = <<>> THEN Value(acc)
    ELSE IF Len(s) > 1
    THEN LET first == MulAddLoop[SubSeq(s, 1, Len(s) \div 2), radix, acc, skip, debug]
         IN  IF first.type # "Ok" THEN first
             ELSE MulAddLoop[SubSeq(s, (Len(s) \div 2) + 1, Len(s)), radix, first.value,
                             skip, debug]
    ELSE IF skip /\ Head(s) = "_" THEN Value(acc)
    ELSE IF debug /\ ~ByteAsserted(radix, AsByte(Head(s))) THEN AssertFailed
    ELSE Value(as_f64[Sum(Product(acc, radix),
                          Num[byte_to_value(radix, AsByte(Head(s)))])])

StartsWith(s, a, b) == Len(s) >= 2 /\ s[1] = a /\ s[2] = b

parse_binary_slow(s, debug) == MulAddLoop[s, 2, <<>>, FALSE, debug]
parse_binary_with_underscores_slow(s, debug) == MulAddLoop[s, 2, <<>>, TRUE, debug]
parse_octal_slow(s, debug) == MulAddLoop[s, 8, <<>>, FALSE, debug]
parse_octal_with_underscores_slow(s, debug) == MulAddLoop[s, 8, <<>>, TRUE, debug]
parse_hex_slow(s, debug) == MulAddLoop[s, 16, <<>>, FALSE, debug]
parse_hex_with_underscores_slow(s, debug) == MulAddLoop[s, 16, <<>>, TRUE, debug]

parse_binary(s, debug) ==
    IF debug /\ (s = <<>> \/ StartsWith(s, "0", "b") \/ StartsWith(s, "0", "B"))
    THEN AssertFailed
    ELSE IF Len(s) > MAX_FAST_BINARY_LEN THEN parse_binary_slow(s, debug)
    ELSE ResultAsF64(ShiftLoop[s, 2, <<>>, FALSE, debug])
parse_binary_with_underscores(s, debug) ==
    IF debug /\ (s = <<>> \/ StartsWith(s, "0", "b") \/ StartsWith(s, "0", "B"))
    THEN AssertFailed
    ELSE IF Len(s) > MAX_FAST_BINARY_LEN THEN parse_binary_with_underscores_slow(s, debug)
    ELSE ResultAsF64(ShiftLoop[s, 2, <<>>, TRUE, debug])
parse_octal(s, debug) ==
    IF debug /\ (s = <<>> \/ StartsWith(s, "0", "o") \/ StartsWith(s, "0", "O"))
    THEN AssertFailed
    ELSE IF Len(s) > MAX_FAST_OCTAL_LEN THEN parse_octal_slow(s, debug)
    ELSE ResultAsF64(ShiftLoop[s, 8, <<>>, FALSE, debug])
parse_octal_with_underscores(s, debug) ==
    IF debug /\ (s = <<>> \/ StartsWith(s, "0", "o") \/ StartsWith(s, "0", "O"))
    THEN AssertFailed
    ELSE IF Len(s) > MAX_FAST_OCTAL_LEN THEN parse_octal_with_underscores_slow(s, debug)
    ELSE ResultAsF64(ShiftLoop[s, 8, <<>>, TRUE, debug])
parse_hex(s, debug) ==
    IF debug /\ (s = <<>> \/ StartsWith(s, "0", "x"))
    THEN AssertFailed
    ELSE IF Len(s) > MAX_FAST_HEX_LEN THEN parse_hex_slow(s, debug)
    ELSE ResultAsF64(ShiftLoop[s, 16, <<>>, FALSE, debug])
parse_hex_with_underscores(s, debug) ==
    IF debug /\ (s = <<>> \/ StartsWith(s, "0", "x"))
    THEN AssertFailed
    ELSE IF Len(s) > MAX_FAST_HEX_LEN THEN parse_hex_with_underscores_slow(s, debug)
    ELSE ResultAsF64(ShiftLoop[s, 16, <<>>, TRUE, debug])

Skip(s, n) == SubSeq(s, n + 1, Len(s))

parse_int(s, kind, has_sep, debug) ==
    CASE kind = "Decimal" ->
           IF has_sep THEN parse_decimal_with_underscores(s, debug) ELSE parse_decimal(s, debug)
      [] kind = "Binary" ->
           IF has_sep THEN parse_binary_with_underscores(Skip(s, 2), debug)
           ELSE parse_binary(Skip(s, 2), debug)
      [] kind = "Octal" ->
           IF has_sep
           THEN parse_octal_with_underscores(Skip(s, IF s[2] \in {"o", "O"} THEN 2 ELSE 1),
                                             debug)
           ELSE parse_octal(Skip(s, IF s[2] \in {"o", "O"} THEN 2 ELSE 1), debug)
      [] kind = "Hex" ->
           IF has_sep THEN parse_hex_with_underscores(Skip(s, 2), debug)
           ELSE parse_hex(Skip(s, 2), debug)

\* The literals: every body of up to MaxLiteralLen bytes over a few digits and '_' that
\* holds a digit, behind each prefix of its kind, and the literals of the tests.
Bodies(alphabet) ==
    {b \in UNION {[1..n -> alphabet \cup {"_"}] : n \in 1..MaxLiteralLen} :
        \E i \in 1..Len(b) : b[i] # "_"}

DecimalLiterals ==
    Bodies({"0", "1", "9"})
    \cup {<<"1", "_", "0", "0", "0", "_", "0", "0", "0">>, <<"1", "0", "0", "0", "0", "0", "0">>}
BinaryLiterals ==
    {p \o b : p \in {<<"0", "b">>, <<"0", "B">>}, b \in Bodies({"0", "1"})}
    \cup {<<"0", "b", "1", "_", "0", "0", "0", "0", "_", "_", "0", "0", "0", "0">>}
OctalLiterals ==
    {p \o b : p \in {<<"0", "o">>, <<"0", "O">>}, b \in Bodies({"0", "7"})}
    \cup {<<"0">> \o b : b \in {c \in Bodies({"0", "7"}) : c[1] # "_"}}
    \cup {<<"0", "o", "7", "7", "_", "7", "3", "_", "7", "2">>}
HexLiterals ==
    {p \o b : p \in {<<"0", "x">>, <<"0", "X">>}, b \in Bodies({"0", "9", "F", "a"})}
    \cup {<<"0", "x", "F", "F", "_", "A", "A", "_", "1", "1">>}

\* Literals without separators around the longest literal of each fast path,
\* and around the 53 bits an f64 holds: runs of the highest digit, 10...01,
\* and the leading digits of 1234567890123456789012
Around == 2

Repeated(c, n) == [i \in 1..n |-> c]
OneZerosOne(n) == <<"1">> \o Repeated("0", n - 2) \o <<"1">>
DigitRun == <<"1", "2", "3", "4", "5", "6", "7", "8", "9", "0", "1", "2", "3", "4", "5", "6", "7", "8", "9", "0", "1", "2">>

Lengths(longest) == (longest - Around)..(longest + Around)

LongBodies(digit, longest) ==
    {Repeated(digit, n) : n \in Lengths(longest)} \cup {OneZerosOne(n) : n \in Lengths(longest)}

\* 2^53 - 1, 2^53, 2^53 + 1, and 2^64 - 1, 2^64
LongDecimalLiterals ==
    LongBodies("9", MAX_FAST_DECIMAL_LEN)
    \cup {SubSeq(DigitRun, 1, n) : n \in Lengths(MAX_FAST_DECIMAL_LEN)}
    \cup {<<"9", "0", "0", "7", "1", "9", "9", "2", "5", "4", "7", "4", "0", "9", "9">> \o <<d>> : d \in {"1", "2", "3"}}
    \cup {<<"1", "8", "4", "4", "6", "7", "4", "4", "0", "7", "3", "7", "0", "9", "5", "5", "1", "6", "1">> \o <<d>> : d \in {"5", "6"}}
LongBinaryLiterals ==
    {<<"0", "b">> \o b : b \in LongBodies("1", MAX_FAST_BINARY_LEN)
                               \cup LongBodies("1", F64_MANTISSA_DIGITS)}
LongOctalLiterals ==
    {p \o b : p \in {<<"0", "o">>, <<"0">>},
              b \in LongBodies("7", MAX_FAST_OCTAL_LEN)
                    \cup {<<"1">> \o Repeated("7", MAX_FAST_OCTAL_LEN),
                          <<"3", "7", "7", "7", "7", "7", "7", "7", "7", "7", "7", "7", "7", "7", "7", "7", "7", "7">>,
                          <<"4", "0", "0", "0", "0", "0", "0", "0", "0", "0", "0", "0", "0", "0", "0", "0", "0", "1">>}}
LongHexLiterals ==
    {p \o b : p \in {<<"0", "x">>, <<"0", "X">>},
              b \in LongBodies("F", MAX_FAST_HEX_LEN)
                    \cup {<<"1", "f", "f", "f", "f", "f", "f", "f", "f", "f", "f", "f", "f", "f">>,
                          <<"2", "0", "0", "0", "0", "0", "0", "0", "0", "0", "0", "0", "0", "1">>,
                          <<"1", "2", "3", "4", "5", "6", "7", "8", "9", "a", "b", "c", "d", "e", "f", "0">>}}

Literals ==
    ({"Decimal"} \X (DecimalLiterals \cup LongDecimalLiterals))
    \cup ({"Binary"} \X (BinaryLiterals \cup LongBinaryLiterals))
    \cup ({"Octal"} \X (OctalLiterals \cup LongOctalLiterals))
    \cup ({"Hex"} \X (HexLiterals \cup LongHexLiterals))

HasUnderscore(s) == \E i \in 1..Len(s) : s[i] = "_"

\* the lexer sets has_sep when it saw a '_'; the build has debug assertions or not
NumberInit ==
    /\ \E l \in Literals, sep, debug \in BOOLEAN :
           /\ HasUnderscore(l[2]) => sep
           /\ literal = [s |-> l[2], kind |-> l[1], has_sep |-> sep, debug_assertions |-> debug]
    /\ parsed = NotParsed
    /\ PrinterIdle /\ KeywordIdle /\ LexerIdle /\ RuntimeIdle

ParseInt ==
    /\ parsed = NotParsed
    /\ parsed' = parse_int(literal.s, literal.kind, literal.has_sep, literal.debug_assertions)
    /\ UNCHANGED <<literal, printer_vars, keyword_vars, lexer_vars, runtime_vars>>

ParseDecimal == literal.kind = "Decimal" /\ ParseInt
ParseBinary == literal.kind = "Binary" /\ ParseInt
ParseOctal == literal.kind = "Octal" /\ ParseInt
ParseHex == literal.kind = "Hex" /\ ParseInt

NumberNext ==
    \/ ParseDecimal
    \/ ParseBinary
    \/ ParseOctal
    \/ ParseHex

NumberSpec == NumberInit /\ [][NumberNext]_vars

Radix(kind) ==
    CASE kind = "Decimal" -> 10 [] kind = "Binary" -> 2 [] kind = "Octal" -> 8 [] OTHER -> 16
\* the literal without its prefix
Body(l) ==
    CASE l.kind = "Decimal" -> l.s
      [] l.kind = "Octal" -> Skip(l.s, IF l.s[2] \in {"o", "O"} THEN 2 ELSE 1)
      [] OTHER -> Skip(l.s, 2)
LiteralValue(l) == Denoted[WithoutUnderscores(Body(l)), Radix(l.kind)]

\* C17, as stated: with has_sep, parse_int gives the integer the digits denote with every
\* '_' ignored, for the four kinds.
C17_AsStated ==
    parsed # NotParsed /\ literal.has_sep => parsed = Value(LiteralValue(literal))

\* C17, what holds of it: binary, octal and hex literals with has_sep, and decimal
\* literals in which no '_' occurs, give the integer their digits denote.
C17_SeparatorsIgnored ==
    parsed # NotParsed /\ literal.has_sep
    /\ (literal.kind = "Decimal" => ~HasUnderscore(literal.s))
        => parsed = Value(as_f64[LiteralValue(literal)])

\* 0xFF_AA_11 gave 0xFFAA11
C17_Witness ==
    /\ literal.s = <<"0", "x", "F", "F", "_", "A", "A", "_", "1", "1">>
    /\ literal.has_sep
    /\ parsed = Value(Num[16755217])

\* the decimal literal 1_000_000: the debug assertion of decimal_byte_to_value, or the
\* '_' counted as the digit 15
C17_DecimalSeparatorCounted ==
    /\ literal.s = <<"1", "_", "0", "0", "0", "_", "0", "0", "0">> /\ literal.has_sep
    /\ \/ literal.debug_assertions /\ parsed = AssertFailed
       \/ ~literal.debug_assertions /\ parsed = Value(Num[250015000])

-----------------------------------------------------------------------------
(* oxc_parser, lexer/gperf_keywords.rs: lookup_keyword.  An identifier is  *)
(* a sequence of one-character strings.                                    *)

MIN_WORD_LENGTH == 2
MAX_WORD_LENGTH == 11
MAX_HASH_VALUE == 159

\* ASSO_VALUES[b] is ASSO_VALUES[b + 1] here: sequences start at 1
ASSO_VALUES ==
    <<
      160, 160, 160, 160, 160, 160, 160, 160, 160, 160, 160, 160, 160, 160, 160, 160, 160,
      160, 160, 160, 160, 160, 160, 160, 160, 160, 160, 160, 160, 160, 160, 160, 160, 160,
      160, 160, 160, 160, 160, 160, 160, 160, 160, 160, 160, 160, 160, 160, 160, 160, 160,
      160, 160, 160, 160, 160, 160, 160, 160, 160, 160, 160, 160, 160, 160, 160, 160, 160,
      160, 160, 160, 160, 160, 160, 160, 160, 160, 160, 160, 160, 160, 160, 160, 160, 160,
      160, 160, 160, 160, 160, 160, 160, 160, 160, 160, 160, 160, 10, 75, 0, 20, 5, 35, 70,
      115, 40, 160, 0, 40, 60, 15, 30, 110, 160, 0, 5, 0, 30, 60, 0, 60, 25, 160, 160, 160,
      160, 160, 160, 160, 160, 160, 160, 160, 160, 160, 160, 160, 160, 160, 160, 160, 160,
      160, 160, 160, 160, 160, 160, 160, 160, 160, 160, 160, 160, 160, 160, 160, 160, 160,
      160, 160, 160, 160, 160, 160, 160, 160, 160, 160, 160, 160, 160, 160, 160, 160, 160,
      160, 160, 160, 160, 160, 160, 160, 160, 160, 160, 160, 160, 160, 160, 160, 160, 160,
      160, 160, 160, 160, 160, 160, 160, 160, 160, 160, 160, 160, 160, 160, 160, 160, 160,
      160, 160, 160, 160, 160, 160, 160, 160, 160, 160, 160, 160, 160, 160, 160, 160, 160,
      160, 160, 160, 160, 160, 160, 160, 160, 160, 160, 160, 160, 160, 160, 160, 160, 160,
      160, 160, 160, 160, 160, 160, 160, 160, 160, 160, 160, 160
    >>

None == [name |-> <<>>, kind |-> "None"]
KeywordEntry(name, kind) == [name |-> name, kind |-> kind]

\* KEYWORD_TABLE[key] is KEYWORD_TABLE[key + 1] here
KEYWORD_TABLE ==
    <<
      None, None, None, None, None, None, None, None, None,
      KeywordEntry(<<"t", "r", "u", "e">>, "True"), None,
      KeywordEntry(<<"s", "t", "a", "t", "i", "c">>, "Static"), None,
      KeywordEntry(<<"s", "e", "t">>, "Set"), None,
      KeywordEntry(<<"a", "w", "a", "i", "t">>, "Await"),
      KeywordEntry(<<"t", "a", "r", "g", "e", "t">>, "Target"),
      KeywordEntry(<<"r", "e", "q", "u", "i", "r", "e">>, "Require"),
      KeywordEntry(<<"a", "c", "c", "e", "s", "s", "o", "r">>, "Accessor"),
      KeywordEntry(<<"c", "a", "s", "e">>, "Case"),
      KeywordEntry(<<"a", "s", "y", "n", "c">>, "Async"),
      KeywordEntry(<<"a", "s", "s", "e", "r", "t">>, "Assert"),
      KeywordEntry(<<"a", "s">>, "As"), KeywordEntry(<<"n", "e", "w">>, "New"), None,
      KeywordEntry(<<"n", "e", "v", "e", "r">>, "Never"),
      KeywordEntry(<<"r", "e", "t", "u", "r", "n">>, "Return"),
      KeywordEntry(<<"a", "s", "s", "e", "r", "t", "s">>, "Asserts"),
      KeywordEntry(<<"t", "r", "y">>, "Try"),
      KeywordEntry(<<"s", "a", "t", "i", "s", "f", "i", "e", "s">>, "Satisfies"),
      KeywordEntry(<<"d", "e", "f", "e", "r">>, "Defer"), None,
      KeywordEntry(<<"d", "e", "f", "a", "u", "l", "t">>, "Default"),
      KeywordEntry(<<"d", "e", "b", "u", "g", "g", "e", "r">>, "Debugger"),
      KeywordEntry(<<"t", "y", "p", "e">>, "Type"),
      KeywordEntry(<<"c", "o", "n", "s", "t">>, "Const"),
      KeywordEntry(<<"d", "e", "l", "e", "t", "e">>, "Delete"),
      KeywordEntry(<<"d", "e", "c", "l", "a", "r", "e">>, "Declare"),
      KeywordEntry(<<"r", "e", "a", "d", "o", "n", "l", "y">>, "Readonly"),
      KeywordEntry(<<"n", "a", "m", "e", "s", "p", "a", "c", "e">>, "Namespace"),
      KeywordEntry(<<"s", "u", "p", "e", "r">>, "Super"),
      KeywordEntry(<<"c", "o", "n", "s", "t", "r", "u", "c", "t", "o", "r">>, "Constructor"),
      None, KeywordEntry(<<"c", "o", "n", "t", "i", "n", "u", "e">>, "Continue"), None,
      KeywordEntry(<<"k", "e", "y", "o", "f">>, "KeyOf"),
      KeywordEntry(<<"s", "o", "u", "r", "c", "e">>, "Source"), None,
      KeywordEntry(<<"l", "e", "t">>, "Let"), None,
      KeywordEntry(<<"c", "l", "a", "s", "s">>, "Class"),
      KeywordEntry(<<"n", "u", "m", "b", "e", "r">>, "Number"),
      KeywordEntry(<<"i", "s">>, "Is"), KeywordEntry(<<"a", "n", "y">>, "Any"),
      KeywordEntry(<<"e", "l", "s", "e">>, "Else"),
      KeywordEntry(<<"f", "a", "l", "s", "e">>, "False"),
      KeywordEntry(<<"u", "n", "i", "q", "u", "e">>, "Unique"), None, None, None,
      KeywordEntry(<<"i", "n", "f", "e", "r">>, "Infer"), None, None,
      KeywordEntry(<<"o", "u", "t">>, "Out"),
      KeywordEntry(<<"i", "n", "t", "r", "i", "n", "s", "i", "c">>, "Intrinsic"), None,
      KeywordEntry(<<"t", "y", "p", "e", "o", "f">>, "Typeof"),
      KeywordEntry(<<"u", "n", "k", "n", "o", "w", "n">>, "Unknown"),
      KeywordEntry(<<"f", "o", "r">>, "For"),
      KeywordEntry(<<"i", "n", "t", "e", "r", "f", "a", "c", "e">>, "Interface"), None,
      KeywordEntry(<<"e", "x", "p", "o", "r", "t">>, "Export"),
      KeywordEntry(<<"i", "n">>, "In"), KeywordEntry(<<"v", "a", "r">>, "Var"),
      KeywordEntry(<<"u", "n", "d", "e", "f", "i", "n", "e", "d">>, "Undefined"), None,
      KeywordEntry(<<"s", "y", "m", "b", "o", "l">>, "Symbol"),
      KeywordEntry(<<"e", "x", "t", "e", "n", "d", "s">>, "Extends"),
      KeywordEntry(<<"g", "e", "t">>, "Get"), KeywordEntry(<<"m", "e", "t", "a">>, "Meta"),
      KeywordEntry(<<"b", "r", "e", "a", "k">>, "Break"),
      KeywordEntry(<<"s", "t", "r", "i", "n", "g">>, "String"),
      KeywordEntry(<<"d", "o">>, "Do"), None, KeywordEntry(<<"e", "n", "u", "m">>, "Enum"),
      None, None, None,
      KeywordEntry(<<"f", "u", "n", "c", "t", "i", "o", "n">>, "Function"),
      KeywordEntry(<<"n", "u", "l", "l">>, "Null"),
      KeywordEntry(<<"y", "i", "e", "l", "d">>, "Yield"), None, None,
      KeywordEntry(<<"a", "b", "s", "t", "r", "a", "c", "t">>, "Abstract"), None, None,
      None, None, None, KeywordEntry(<<"f", "r", "o", "m">>, "From"),
      KeywordEntry(<<"i", "n", "s", "t", "a", "n", "c", "e", "o", "f">>, "Instanceof"),
      KeywordEntry(<<"m", "o", "d", "u", "l", "e">>, "Module"),
      KeywordEntry(<<"o", "f">>, "Of"),
      KeywordEntry(<<"o", "v", "e", "r", "r", "i", "d", "e">>, "Override"), None, None,
      KeywordEntry(<<"i", "m", "p", "o", "r", "t">>, "Import"),
      KeywordEntry(<<"f", "i", "n", "a", "l", "l", "y">>, "Finally"), None, None,
      KeywordEntry(<<"u", "s", "i", "n", "g">>, "Using"),
      KeywordEntry(<<"o", "b", "j", "e", "c", "t">>, "Object"),
      KeywordEntry(<<"i", "f">>, "If"), None, KeywordEntry(<<"v", "o", "i", "d">>, "Void"),
      KeywordEntry(<<"i", "m", "p", "l", "e", "m", "e", "n", "t", "s">>, "Implements"),
      None, None, None, None, KeywordEntry(<<"t", "h", "r", "o", "w">>, "Throw"),
      KeywordEntry(<<"b", "i", "g", "i", "n", "t">>, "BigInt"),
      KeywordEntry(<<"p", "r", "i", "v", "a", "t", "e">>, "Private"), None,
      KeywordEntry(<<"t", "h", "i", "s">>, "This"),
      KeywordEntry(<<"w", "h", "i", "l", "e">>, "While"),
      KeywordEntry(<<"s", "w", "i", "t", "c", "h">>, "Switch"),
      KeywordEntry(<<"b", "o", "o", "l", "e", "a", "n">>, "Boolean"), None, None,
      KeywordEntry(<<"c", "a", "t", "c", "h">>, "Catch"), None,
      KeywordEntry(<<"p", "a", "c", "k", "a", "g", "e">>, "Package"), None, None, None,
      None, None, None,
      KeywordEntry(<<"p", "r", "o", "t", "e", "c", "t", "e", "d">>, "Protected"), None,
      None, None, None, None, None,
      KeywordEntry(<<"p", "u", "b", "l", "i", "c">>, "Public"), None, None, None, None,
      None, None, None, None, None,
      KeywordEntry(<<"g", "l", "o", "b", "a", "l">>, "Global"), None, None,
      KeywordEntry(<<"w", "i", "t", "h">>, "With")
    >>

LowerAlphabet ==
    <<"a", "b", "c", "d", "e", "f", "g", "h", "i", "j", "k", "l", "m", "n", "o", "p", "q", "r",
      "s", "t", "u", "v", "w", "x", "y", "z">>

\* s.as_bytes() of an identifier: b'a' is 0x61, b'_' is 0x5F, b'$' is 0x24
IdentByte(c) ==
    IF InSeq(LowerAlphabet, c) THEN 96 + IndexOf(LowerAlphabet, c)
    ELSE IF c = "_" THEN 95
    ELSE IF c = "$" THEN 36
    ELSE AsByte(c)

hash_keyword(s) ==
    IF Len(s) = 0 THEN 0
    ELSE Len(s) + ASSO_VALUES[IdentByte(s[1]) + 1]
         + (IF Len(s) > 1 THEN ASSO_VALUES[IdentByte(s[2]) + 1] ELSE 0)
         + ASSO_VALUES[IdentByte(s[Len(s)]) + 1]

\* lookup_keyword without the comparison of the entry's name
LookupWithoutNameTest(s) ==
    IF Len(s) < MIN_WORD_LENGTH \/ Len(s) > MAX_WORD_LENGTH THEN "Ident"
    ELSE IF hash_keyword(s) > MAX_HASH_VALUE THEN "Ident"
    ELSE IF KEYWORD_TABLE[hash_keyword(s) + 1] # None
    THEN KEYWORD_TABLE[hash_keyword(s) + 1].kind
    ELSE "Ident"

lookup_keyword(s) ==
    IF Len(s) < MIN_WORD_LENGTH \/ Len(s) > MAX_WORD_LENGTH THEN "Ident"
    ELSE IF hash_keyword(s) > MAX_HASH_VALUE THEN "Ident"
    ELSE IF KEYWORD_TABLE[hash_keyword(s) + 1] # None
            /\ KEYWORD_TABLE[hash_keyword(s) + 1].name = s
    THEN KEYWORD_TABLE[hash_keyword(s) + 1].kind
    ELSE "Ident"

\* The identifiers looked up: the names of the table; for each name of four bytes or more
\* a string with the same length, first, second and last byte (so the same hash) and
\* another third byte; every string of two and of three lowercase letters; strings too
\* short, too long, and with bytes outside the letters.
TableNames == {KEYWORD_TABLE[i].name : i \in {j \in 1..Len(KEYWORD_TABLE) : KEYWORD_TABLE[j] # None}}
SameHash(name) == [name EXCEPT ![3] = IF @ = "q" THEN "z" ELSE "q"]
Letters == {LowerAlphabet[i] : i \in 1..Len(LowerAlphabet)}
Idents ==
    TableNames
    \cup {SameHash(name) : name \in {n \in TableNames : Len(n) >= 4}}
    \cup [1..2 -> Letters] \cup [1..3 -> Letters]
    \cup {<<>>, <<"a">>, <<"i">>, <<"_">>, <<"a", "_", "b">>, <<"$", "i", "f">>,
          <<"c", "o", "n", "s", "t", "r", "u", "c", "t", "o", "r", "s">>,
          <<"n", "o", "t", "_", "a", "_", "k", "e", "y", "w", "o", "r", "d">>,
          <<"a", "w", "a", "i">>, <<"a", "w", "a", "i", "t", "s">>}

KeywordInit ==
    /\ ident \in Idents
    /\ kind_found = "NotLooked"
    /\ PrinterIdle /\ NumberIdle /\ LexerIdle /\ RuntimeIdle

LookupKeyword ==
    /\ kind_found = "NotLooked"
    /\ kind_found' = lookup_keyword(ident)
    /\ UNCHANGED <<ident, printer_vars, number_vars, lexer_vars, runtime_vars>>

KeywordNext == LookupKeyword

KeywordSpec == KeywordInit /\ [][KeywordNext]_vars

\* the slots of the table that hold a name
SlotsOf(s) == {i \in 1..Len(KEYWORD_TABLE) : KEYWORD_TABLE[i].name = s}

\* the kind the table stores with a name, found by the name alone
StoredKind(s) ==
    IF s # <<>> /\ SlotsOf(s) # {}
    THEN KEYWORD_TABLE[CHOOSE i \in SlotsOf(s) : TRUE].kind
    ELSE "Ident"

\* C18: an entry of KEYWORD_TABLE sits at the index its name hashes to, and in no other
\* slot; lookup_keyword gives the kind stored with a name of the table and Ident for
\* every other string: the empty one, those shorter than 2 or longer than 11 bytes, and
\* those that hash to the slot of another name.
C18_KeywordLookup ==
    /\ ident # <<>> => SlotsOf(ident) \subseteq {hash_keyword(ident) + 1}
    /\ kind_found # "NotLooked" => kind_found = StoredKind(ident)

\* "interface" was found in its slot, and so not by accident of the string being short
C18_Witness ==
    /\ ident = <<"i", "n", "t", "e", "r", "f", "a", "c", "e">>
    /\ kind_found = "Interface"
    /\ KEYWORD_TABLE[hash_keyword(ident) + 1].name = ident

\* "trqe" hashes to the slot of "true" and is an identifier
C18_CollisionWitness ==
    /\ ident = <<"t", "r", "q", "e">>
    /\ KEYWORD_TABLE[hash_keyword(ident) + 1].kind = "True"
    /\ kind_found = "Ident"

-----------------------------------------------------------------------------
(* oxc_parser, lexer/mod.rs and lexer/byte_handlers.rs: the Lexer with its *)
(* checkpoints.  The source is a sequence of one-byte characters; "VT" is  *)
(* the byte 0x0B and "DEL" the byte 0x7F.                                  *)

\* sources of up to this many pieces
MaxPieces == 3
\* up to this many calls on a lexer
MaxCalls == 4

\* self.offset(), self.peek_byte(), self.consume_char()
Offset(lx) == lx.position
IsEof(lx) == lx.position >= Len(lx.source)
PeekByte(lx) == IF IsEof(lx) THEN <<>> ELSE <<lx.source[lx.position + 1]>>
ConsumeChar(lx) == [lx EXCEPT !.position = @ + 1]
NextAsciiByteEq(lx, c) == PeekByte(lx) = <<c>>

\* what a byte handler gives: the lexer and the Kind
Handled(lx, kind) == [lexer |-> lx, kind |-> kind]

\* BYTE_HANDLERS, on the bytes of the sources of the model
ByteHandlerOf(c) ==
    CASE c = " " -> "SPS"
      [] c = "VT" -> "ISP"
      [] c = "\n" -> "LIN"
      [] c = "(" -> "PNO"
      [] c = ")" -> "PNC"
      [] c = "," -> "COM"
      [] c = "/" -> "SLH"
      [] c = "DEL" -> "ERR"
      [] c \in {"h", "j", "q", "x", "z"} -> "IDT"
      [] OTHER -> "UNI_IDT"

\* lexer.error(diagnostics::invalid_character(c, lexer.unterminated_range()))
ERR(lx) ==
    Handled([ConsumeChar(lx) EXCEPT
                 !.errors = Append(@, [error |-> "invalid_character", start |-> lx.token.start,
                                       end |-> lx.position + 1])],
            "Undetermined")
SPS(lx) == Handled(ConsumeChar(lx), "Skip")
ISP(lx) ==
    Handled([ConsumeChar(lx) EXCEPT
                 !.trivia_builder.irregular_whitespaces =
                     Append(@, <<lx.token.start, lx.position + 1>>)],
            "Skip")
\* line_break_handler: the token is on a new line
LIN(lx) == Handled([ConsumeChar(lx) EXCEPT !.token.is_on_new_line = TRUE], "Skip")
PNO(lx) == Handled(ConsumeChar(lx), "LParen")
PNC(lx) == Handled(ConsumeChar(lx), "RParen")
COM(lx) == Handled(ConsumeChar(lx), "Comma")

\* identifier_name_handler: the identifier from the current position
RECURSIVE IdentifierEnd(_, _)
IdentifierEnd(source, pos) ==
    IF pos < Len(source) /\ source[pos + 1] \in Letters THEN IdentifierEnd(source, pos + 1)
    ELSE pos
IdentifierName(lx) == SubSeq(lx.source, lx.position + 1, IdentifierEnd(lx.source, lx.position))
IDT(lx) == Handled([lx EXCEPT !.position = IdentifierEnd(lx.source, lx.position)], "Ident")
UNI_IDT(lx) ==
    Handled([lx EXCEPT !.position = IdentifierEnd(lx.source, lx.position)],
            lookup_keyword(IdentifierName(lx)))

\* skip_single_line_comment: up to the line break or the end
RECURSIVE LineEnd(_, _)
LineEnd(source, pos) ==
    IF pos < Len(source) /\ source[pos + 1] # "\n" THEN LineEnd(source, pos + 1) ELSE pos
SkipSingleLineComment(lx) == Handled([lx EXCEPT !.position = LineEnd(lx.source, lx.position)], "Skip")

\* skip_multi_line_comment: through the next "*/"; an '@' in the comment stands for the
\* annotation @__PURE__ and a '#' for #__NO_SIDE_EFFECTS__
CommentCloses(source, from) ==
    {p \in from..(Len(source) - 2) : source[p + 1] = "*" /\ source[p + 2] = "/"}
CommentHas(lx, close, c) == \E p \in (lx.position + 1)..close : lx.source[p] = c
MultiLineCommentSkipped(lx, close) ==
    Handled([lx EXCEPT
                 !.position = close + 2,
                 !.token.is_on_new_line = @ \/ CommentHas(lx, close, "\n"),
                 !.trivia_builder.has_pure_comment = @ \/ CommentHas(lx, close, "@"),
                 !.trivia_builder.has_no_side_effects_comment = @ \/ CommentHas(lx, close, "#")],
            "Skip")
SkipMultiLineComment(lx) ==
    IF CommentCloses(lx.source, lx.position) = {}
    THEN Handled([lx EXCEPT !.position = Len(lx.source),
                            !.errors = Append(@, [error |-> "unterminated_multi_line_comment",
                                                  start |-> lx.token.start,
                                                  end |-> Len(lx.source)])],
                 "Eof")
    ELSE MultiLineCommentSkipped(
             lx, CHOOSE p \in CommentCloses(lx.source, lx.position) :
                     \A r \in CommentCloses(lx.source, lx.position) : p <= r)

SlashAfter(lx) ==
    IF NextAsciiByteEq(lx, "/") THEN SkipSingleLineComment(ConsumeChar(lx))
    ELSE IF NextAsciiByteEq(lx, "*") THEN SkipMultiLineComment(ConsumeChar(lx))
    ELSE IF NextAsciiByteEq(lx, "=") THEN Handled(ConsumeChar(lx), "SlashEq")
    ELSE Handled(lx, "Slash")
SLH(lx) == SlashAfter(ConsumeChar(lx))

handle_byte(lx, byte) ==
    CASE ByteHandlerOf(byte) = "SPS" -> SPS(lx)
      [] ByteHandlerOf(byte) = "ISP" -> ISP(lx)
      [] ByteHandlerOf(byte) = "LIN" -> LIN(lx)
      [] ByteHandlerOf(byte) = "PNO" -> PNO(lx)
      [] ByteHandlerOf(byte) = "PNC" -> PNC(lx)
      [] ByteHandlerOf(byte) = "COM" -> COM(lx)
      [] ByteHandlerOf(byte) = "SLH" -> SLH(lx)
      [] ByteHandlerOf(byte) = "ERR" -> ERR(lx)
      [] ByteHandlerOf(byte) = "IDT" -> IDT(lx)
      [] OTHER -> UNI_IDT(lx)

\* the loop of read_next_token
RECURSIVE ReadLoop(_)
ReadLoop(lx) ==
    IF IsEof(lx) THEN Handled([lx EXCEPT !.token.start = Offset(lx)], "Eof")
    ELSE IF handle_byte([lx EXCEPT !.token.start = Offset(lx)], PeekByte(lx)[1]).kind = "Skip"
    THEN ReadLoop(handle_byte([lx EXCEPT !.token.start = Offset(lx)], PeekByte(lx)[1]).lexer)
    ELSE handle_byte([lx EXCEPT !.token.start = Offset(lx)], PeekByte(lx)[1])

read_next_token(lx) ==
    ReadLoop([lx EXCEPT !.trivia_builder.has_pure_comment = FALSE,
                        !.trivia_builder.has_no_side_effects_comment = FALSE])

\* what next_token gives: the lexer and the Token
Lexed(lx, token) == [lexer |-> lx, token |-> token]

finish_next(lx, kind) ==
    Lexed([lx EXCEPT !.token = TokenDefault],
          [lx.token EXCEPT !.kind = kind, !.end = Offset(lx)])

next_token(lx) == finish_next(read_next_token(lx).lexer, read_next_token(lx).kind)

LexerCheckpoint(lx) ==
    [position |-> lx.position, token |-> lx.token, errors_pos |-> Len(lx.errors)]

rewind(lx, cp) ==
    [lx EXCEPT !.errors = SubSeq(@, 1, Min(Len(@), cp.errors_pos)),
               !.position = cp.position,
               !.token = cp.token]

peek_token(lx) == Lexed(rewind(next_token(lx).lexer, LexerCheckpoint(lx)), next_token(lx).token)

\* The sources: up to MaxPieces pieces, each a token, white space, or a comment
Pieces ==
    {<<"a">>, <<"i", "f">>, <<"x">>, <<" ">>, <<"\n">>, <<"VT">>, <<"(">>, <<"DEL">>,
     <<"/">>, <<"/", "*", "@", "*", "/">>, <<"/", "*", "#", "\n", "*", "/">>, <<"/", "*">>}
Sources == {Flatten(ps) : ps \in UNION {[1..n -> Pieces] : n \in 0..MaxPieces}}

LexerInit ==
    /\ \E source_text \in Sources : lexer = NewLexer(source_text)
    /\ checkpoint = NoCheckpoint
    /\ returned = NoToken
    /\ history = NoHistory
    /\ PrinterIdle /\ NumberIdle /\ KeywordIdle /\ RuntimeIdle

not_lexer_vars == <<printer_vars, number_vars, keyword_vars, runtime_vars>>

\* let token = lexer.next_token(), until the end of the file was returned
NextToken ==
    /\ history.calls < MaxCalls
    /\ returned.kind # "Eof"
    /\ lexer' = next_token(lexer).lexer
    /\ returned' = next_token(lexer).token
    /\ history' = [history EXCEPT !.op = "next_token", !.calls = @ + 1,
                                  !.expected = history.peeked, !.peeked = NoToken,
                                  !.before_peek = NewLexer(<<>>)]
    /\ UNCHANGED <<checkpoint, not_lexer_vars>>

\* let checkpoint = lexer.checkpoint()
Checkpoint ==
    /\ history.calls < MaxCalls
    /\ checkpoint' = <<LexerCheckpoint(lexer)>>
    /\ history' = [history EXCEPT !.op = "checkpoint", !.calls = @ + 1,
                                  !.at_checkpoint = lexer, !.expected = NoToken,
                                  !.before_peek = NewLexer(<<>>)]
    /\ UNCHANGED <<lexer, returned, not_lexer_vars>>

\* lexer.rewind(checkpoint)
Rewind ==
    /\ history.calls < MaxCalls
    /\ checkpoint # NoCheckpoint
    /\ lexer' = rewind(lexer, checkpoint[1])
    /\ returned' = NoToken
    /\ history' = [history EXCEPT !.op = "rewind", !.calls = @ + 1, !.peeked = NoToken,
                                  !.expected = NoToken, !.before_peek = NewLexer(<<>>)]
    /\ UNCHANGED <<checkpoint, not_lexer_vars>>

\* let token = lexer.peek_token()
PeekToken ==
    /\ history.calls < MaxCalls
    /\ returned.kind # "Eof"
    /\ lexer' = peek_token(lexer).lexer
    /\ history' = [history EXCEPT !.op = "peek_token", !.calls = @ + 1,
                                  !.before_peek = lexer,
                                  !.peeked = peek_token(lexer).token,
                                  !.expected = NoToken]
    /\ UNCHANGED <<checkpoint, returned, not_lexer_vars>>

LexerNext ==
    \/ NextToken
    \/ Checkpoint
    \/ Rewind
    \/ PeekToken

LexerSpec == LexerInit /\ [][LexerNext]_vars

\* the fields of the lexer that a LexerCheckpoint holds, with the source and the context
Checkpointed(lx) ==
    [source |-> lx.source, position |-> lx.position, token |-> lx.token,
     errors |-> lx.errors, context |-> lx.context]

\* C19, as stated: rewind puts the lexer back in the state of the checkpoint, peek_token
\* leaves the lexer as it was, and next_token after peek_token returns the peeked token.
C19_AsStated ==
    /\ history.op = "rewind" => lexer = history.at_checkpoint
    /\ history.op = "peek_token" => lexer = history.before_peek
    /\ history.op = "next_token" /\ history.expected # NoToken => returned = history.expected

\* C19, what holds of it: rewind puts back the position, the token and the errors, the
\* fields a checkpoint holds, and so does peek_token; next_token after peek_token returns
\* the peeked token.  The flags and the spans of the trivia builder are left as the
\* calls of next_token in between set them.
C19_CheckpointedFieldsRestored ==
    /\ history.op = "rewind" => Checkpointed(lexer) = Checkpointed(history.at_checkpoint)
    /\ history.op = "peek_token" => Checkpointed(lexer) = Checkpointed(history.before_peek)
    /\ history.op = "next_token" /\ history.expected # NoToken => returned = history.expected

\* the checkpoint was taken after the token that follows a pure comment; the rewind over
\* the next token left has_pure_comment cleared
C19_PureCommentForgotten ==
    /\ history.op = "rewind"
    /\ history.at_checkpoint.trivia_builder.has_pure_comment
    /\ ~lexer.trivia_builder.has_pure_comment
    /\ Checkpointed(lexer) = Checkpointed(history.at_checkpoint)

\* a token was peeked and then returned by next_token
C19_PeekedThenReturned ==
    /\ history.op = "next_token" /\ history.expected.kind = "If"
    /\ returned = history.expected

\* ---------------------------------------------------------------------------
\* oxc_linter, service/runtime.rs: Runtime::resolve_modules with the resolver
\* enabled.  The graph thread runs the group loop; every scope.spawn is a task
\* that some thread of the pool runs at any later moment.  The paths are
\* numbers: 1..NumPaths are the entries (self.paths), 0 is a module that is
\* only a dependency.  A module has one source section, and a specifier is
\* named by the path it resolves to.
\* ---------------------------------------------------------------------------

NumThreads == 1
NumPaths == 5
MaxRequests == 3

Modules == 0..NumPaths

\* let group_size = rayon::current_num_threads() * 4;
group_size == NumThreads * 4

\* self.paths after par_sort_unstable_by(|a, b| b.cmp(a)): descending
SortedPaths == [i \in 1..NumPaths |-> NumPaths + 1 - i]

ModuleKinds == {"ok", "syntax_error", "unreadable"}

\* The modules that import or are imported, or fail to load: the module that
\* is no entry, the last entry and the first one.  The entries between them
\* are plain modules without imports.
Linked == {0, 1, NumPaths}

\* Every module parses and can be read, or one of them does not.
KindsOfModules ==
    {[m \in Modules |-> "ok"]}
        \cup {[m \in Modules |-> IF m = bad THEN k ELSE "ok"] :
                bad \in Linked, k \in ModuleKinds \ {"ok"}}

Requests == Linked \X Linked

RequestSets ==
    {{}} \cup {{e, f, g} : e, f, g \in Requests}

RequestsOf(m, edges) == {e[2] : e \in {f \in edges : f[1] = m}}

Files ==
    {[paths |-> SortedPaths,
      kind |-> kinds,
      requests |-> [m \in Modules |-> RequestsOf(m, edges)]] :
        kinds \in KindsOfModules,
        edges \in {es \in RequestSets : Cardinality(es) <= MaxRequests}}

ProcessedModuleDefault == [section_module_records |-> <<>>, content |-> FALSE]

default_output(path) == [path |-> path, processed_module |-> ProcessedModuleDefault]

\* process_source with process_source_section: one record, Err when the
\* section does not parse, else the module record with its resolved requests.
process_source(path) ==
    IF files.kind[path] = "syntax_error"
    THEN <<[ok |-> FALSE, module_record |-> path, resolved_module_requests |-> {}]>>
    ELSE <<[ok |-> TRUE, module_record |-> path,
            resolved_module_requests |-> files.requests[path]]>>

process_path(path) ==
    IF files.kind[path] = "unreadable"
    THEN default_output(path)
    ELSE [path |-> path,
          processed_module |->
              [section_module_records |-> process_source(path),
               content |-> InSeq(files.paths, path)]]

RecordIsOk(r) == r.ok

OkRecords(processed_module) ==
    SelectSeq(processed_module.section_module_records, RecordIsOk)

\* ModuleToLint::from_processed_module: None without content
from_processed_module(path, processed_module) ==
    IF processed_module.content THEN <<path>> ELSE <<>>

NewGraph ==
    [stage |-> "bootstrap",
     group_start |-> 0,
     pending_module_count |-> 0,
     encountered_paths |-> {},
     modules_by_path |-> <<>>,
     module_paths_and_resolved_requests |-> <<>>,
     modules_to_lint |-> <<>>]

NotLinted == [calls |-> 0, ready |-> TRUE]

RuntimeInit ==
    /\ files \in Files
    /\ graph = NewGraph
    /\ module_tasks = [m \in Modules |-> 0]
    /\ rx_process_output = <<>>
    /\ lint_tasks = [m \in Modules |-> 0]
    /\ loaded_modules = [m \in Modules |-> {}]
    /\ linted = [m \in Modules |-> NotLinted]
    /\ PrinterIdle /\ NumberIdle /\ KeywordIdle /\ LexerIdle

not_runtime_vars == <<printer_vars, number_vars, keyword_vars, lexer_vars>>

Spawned(tasks, paths) == [m \in Modules |-> tasks[m] + (IF m \in paths THEN 1 ELSE 0)]

BootstrapContinues(g) ==
    g.pending_module_count < group_size /\ g.group_start < Len(files.paths)

ReceiveOrPopulate(g) ==
    [g EXCEPT !.stage = IF g.pending_module_count > 0 THEN "receive" ELSE "populate"]

\* the bootstrap loop without the test of encountered_paths
BootstrapRespawning ==
    /\ graph.stage = "bootstrap"
    /\ LET path == files.paths[graph.group_start + 1]
           g == [graph EXCEPT !.group_start = @ + 1,
                              !.encountered_paths = @ \cup {path},
                              !.pending_module_count = @ + 1]
       IN  /\ graph' = IF BootstrapContinues(g) THEN g ELSE ReceiveOrPopulate(g)
           /\ module_tasks' = Spawned(module_tasks, {path})
    /\ UNCHANGED <<files, rx_process_output, lint_tasks, loaded_modules, linted,
                   not_runtime_vars>>

\* One iteration of the bootstrap loop of a group.
Bootstrap ==
    /\ graph.stage = "bootstrap"
    /\ LET path == files.paths[graph.group_start + 1]
           inserted == path \notin graph.encountered_paths
           g == [graph EXCEPT !.group_start = @ + 1,
                              !.encountered_paths = @ \cup {path},
                              !.pending_module_count = IF inserted THEN @ + 1 ELSE @]
       IN  /\ graph' = IF BootstrapContinues(g) THEN g ELSE ReceiveOrPopulate(g)
           /\ module_tasks' = IF inserted THEN Spawned(module_tasks, {path}) ELSE module_tasks
    /\ UNCHANGED <<files, rx_process_output, lint_tasks, loaded_modules, linted,
                   not_runtime_vars>>

\* A module thread runs a spawned task: process_path, then send.
ProcessPath ==
    /\ \E path \in Modules :
        /\ module_tasks[path] > 0
        /\ module_tasks' = [module_tasks EXCEPT ![path] = @ - 1]
        /\ rx_process_output' = Append(rx_process_output, process_path(path))
    /\ UNCHANGED <<files, graph, lint_tasks, loaded_modules, linted, not_runtime_vars>>

RequestedBy(records) ==
    UNION {records[i].resolved_module_requests : i \in DOMAIN records}

\* the receive loop storing a module in the graph only if it has a record
ReceiveStoringRecordsOnly ==
    /\ graph.stage = "receive"
    /\ graph.pending_module_count > 0
    /\ rx_process_output # <<>>
    /\ LET output == Head(rx_process_output)
           path == output.path
           processed_module == output.processed_module
           records == OkRecords(processed_module)
           inserted == RequestedBy(records) \ graph.encountered_paths
           g == [graph EXCEPT
                   !.pending_module_count = @ - 1 + Cardinality(inserted),
                   !.encountered_paths = @ \cup inserted,
                   !.modules_by_path =
                       IF records = <<>> THEN @
                       ELSE (path :> [i \in DOMAIN records |-> records[i].module_record]) @@ @,
                   !.module_paths_and_resolved_requests =
                       Append(@, <<path, [i \in DOMAIN records |->
                                            records[i].resolved_module_requests]>>),
                   !.modules_to_lint = @ \o from_processed_module(path, processed_module)]
       IN  /\ graph' = ReceiveOrPopulate(g)
           /\ module_tasks' = Spawned(module_tasks, inserted)
           /\ rx_process_output' = Tail(rx_process_output)
    /\ UNCHANGED <<files, lint_tasks, loaded_modules, linted, not_runtime_vars>>

\* One iteration of the loop over the queued modules in which try_recv
\* returned an output (the others only yield).
Receive ==
    /\ graph.stage = "receive"
    /\ graph.pending_module_count > 0
    /\ rx_process_output # <<>>
    /\ LET output == Head(rx_process_output)
           path == output.path
           processed_module == output.processed_module
           records == OkRecords(processed_module)
           inserted == RequestedBy(records) \ graph.encountered_paths
           g == [graph EXCEPT
                   !.pending_module_count = @ - 1 + Cardinality(inserted),
                   !.encountered_paths = @ \cup inserted,
                   !.modules_by_path =
                       (path :> [i \in DOMAIN records |-> records[i].module_record]) @@ @,
                   !.module_paths_and_resolved_requests =
                       Append(@, <<path, [i \in DOMAIN records |->
                                            records[i].resolved_module_requests]>>),
                   !.modules_to_lint = @ \o from_processed_module(path, processed_module)]
       IN  /\ graph' = ReceiveOrPopulate(g)
           /\ module_tasks' = Spawned(module_tasks, inserted)
           /\ rx_process_output' = Tail(rx_process_output)
    /\ UNCHANGED <<files, lint_tasks, loaded_modules, linted, not_runtime_vars>>

Without(s, i) == SubSeq(s, 1, i - 1) \o SubSeq(s, i + 1, Len(s))

\* an empty module graph entry has no last record: the request is skipped
LoadNothing(requests, modules_by_path) == {}

\* what one record's loaded_modules receives: the requests whose module has a record
Loaded(requests, modules_by_path) ==
    {dep \in requests : modules_by_path[dep] # <<>>}

\* One item of module_paths_and_resolved_requests.par_drain(..).  Each item
\* writes the records of its own path only, so the items are taken in the
\* order of the vector.
PopulateLoadedModules ==
    /\ graph.stage = "populate"
    /\ graph.module_paths_and_resolved_requests # <<>>
    /\ LET i == 1
        IN
        LET item == graph.module_paths_and_resolved_requests[i]
            path == item[1]
            requested_module_paths == item[2]
            records == graph.modules_by_path[path]
        IN  /\ graph' = [graph EXCEPT !.module_paths_and_resolved_requests = Without(@, i)]
            /\ loaded_modules' =
                 IF requested_module_paths = <<>>
                 THEN loaded_modules
                 ELSE [m \in Modules |->
                         loaded_modules[m] \cup
                           UNION {Loaded(requested_module_paths[k], graph.modules_by_path) :
                                    k \in {j \in DOMAIN records : records[j] = m}}]
    /\ UNCHANGED <<files, module_tasks, rx_process_output, lint_tasks, linted,
                   not_runtime_vars>>

\* The end of a group: modules_to_lint.drain(..) spawns the lint tasks, and
\* the group loop goes on or ends.
SpawnLint ==
    /\ graph.stage = "populate"
    /\ graph.module_paths_and_resolved_requests = <<>>
    /\ lint_tasks' = [m \in Modules |->
                        lint_tasks[m] + Cardinality({i \in DOMAIN graph.modules_to_lint :
                                                       graph.modules_to_lint[i] = m})]
    /\ graph' = [graph EXCEPT
                   !.modules_to_lint = <<>>,
                   !.stage = IF graph.group_start < Len(files.paths)
                             THEN "bootstrap" ELSE "done"]
    /\ UNCHANGED <<files, module_tasks, rx_process_output, loaded_modules, linted,
                   not_runtime_vars>>

\* The modules a module requests, as its source says.
Requested(m) == IF files.kind[m] = "ok" THEN files.requests[m] ELSE {}

RECURSIVE RequestClosure(_)
RequestClosure(S) ==
    LET T == S \cup UNION {Requested(m) : m \in S}
    IN  IF T = S THEN S ELSE RequestClosure(T)

\* Every module the entry requests, directly or transitively, is in the module
\* graph, and its record holds the records of the modules it requests.
ReadyForLinting(path) ==
    \A m \in RequestClosure({path}) :
        /\ m \in DOMAIN graph.modules_by_path
        /\ loaded_modules[m] = {dep \in Requested(m) : files.kind[dep] = "ok"}

\* A thread of the pool runs a spawned on_module_to_lint task.
Lint ==
    /\ \E path \in Modules :
        /\ lint_tasks[path] > 0
        /\ lint_tasks' = [lint_tasks EXCEPT ![path] = @ - 1]
        /\ linted' = [linted EXCEPT ![path] =
                        [calls |-> @.calls + 1,
                         ready |-> @.ready /\ ReadyForLinting(path)]]
    /\ UNCHANGED <<files, graph, module_tasks, rx_process_output, loaded_modules,
                   not_runtime_vars>>

RuntimeNext ==
    \/ Bootstrap
    \/ ProcessPath
    \/ Receive
    \/ PopulateLoadedModules
    \/ SpawnLint
    \/ Lint

RuntimeSpec == RuntimeInit /\ [][RuntimeNext]_vars

TasksOf(tasks) == {m \in Modules : tasks[m] > 0}

Resolved == graph.stage = "done" /\ TasksOf(lint_tasks) = {}

Loadable(m) == InSeq(files.paths, m) /\ files.kind[m] # "unreadable"

RECURSIVE SumOver(_, _)
SumOver(tasks, S) ==
    IF S = {} THEN 0
    ELSE LET m == CHOOSE x \in S : TRUE IN tasks[m] + SumOver(tasks, S \ {m})

\* C20: with the resolver enabled, on_module_to_lint is called exactly once for
\* each entry path whose content could be loaded and never for another path; at
\* each call every module the entry requests, directly or transitively, has
\* been processed and the loaded_modules of these modules are populated.  This
\* holds for every order in which the module tasks and the lint tasks run, also
\* for an entry that an earlier group met as a dependency, and the graph thread
\* never waits for an output that no task will send.
C20_LintedOnceWhenReady ==
    /\ \A m \in Modules : linted[m].calls <= 1 /\ linted[m].ready
    /\ \A m \in Modules : linted[m].calls + lint_tasks[m] > 0 => Loadable(m)
    /\ Resolved => \A m \in Modules : Loadable(m) => linted[m].calls = 1
    /\ graph.stage = "receive" =>
         graph.pending_module_count =
             Len(rx_process_output) + SumOver(module_tasks, Modules)

\* The last entry is met in the first group as a dependency of the first
\* entry, requests a module that is no entry, and has been linted.
C20_Witness ==
    /\ Resolved
    /\ 1 \in files.requests[NumPaths]
    /\ 0 \in files.requests[1]
    /\ \A m \in Modules : files.kind[m] = "ok"
    /\ linted[1].calls = 1
    /\ loaded_modules[1] = {0}

\* The last entry is processed in a second group and requests an entry of the
\* first group.
C20_SecondGroupWitness ==
    /\ Resolved
    /\ files.requests[1] = {NumPaths}
    /\ \A m \in Modules \ {1} : files.requests[m] = {}
    /\ linted[1].calls = 1
    /\ loaded_modules[1] = {NumPaths}

\* C21 as stated: whenever a group start, a Fill or a best-fitting element takes the
\* cached verdict (the enclosing mode is Flat and measured_group_fits is set), the
\* measurement it skips would report that the content fits.
C21_AsStated ==
    \A k \in 1..Len(shortcuts) : shortcuts[k].fits = "Yes"

\* The fill of one item, Group ["x", SoftOrSpace, "x"], followed by the text "x" at
\* print_width 3: the group took the cached verdict inside the item, which alone was
\* measured, and the line is 4 columns wide although the group could break.
C21_LineTooWide ==
    /\ PrintedDocument(Fill(<<GroupItem(X(1))>>) \o <<Text(X(1))>>)
    /\ options.print_width = 3
    /\ state.buffer = <<"x", " ", "x", "x">>

\* The group of a fill item takes the cached verdict where the measurement says no.
C21_Witness ==
    /\ document = propagate_expands(Fill(<<GroupItem(X(1))>>) \o <<Text(X(1))>>)
    /\ options.print_width = 3
    /\ element = StartFill
    /\ shortcuts = <<[kind |-> "Group", fits |-> "No"]>>

-----------------------------------------------------------------------------
(* The layouts of a fill (C22, C23)                                         *)

\* the main loop is at a StartFill that does not take the cached verdict, and the step
\* ends without an error
FillMeasuredAtStart ==
    /\ result = Running /\ queue # <<>>
    /\ IsStart(NextElement, "Fill")
    /\ ~(state.measured_group_fits /\ StackTop(stack) = "Flat")
    /\ result' = Running

\* the measurer of the first iteration of the fill loop
FillStartMeasurer ==
    FitsMeasurerNewFlat(QAfterPop(queue), StackPush(stack, "Fill", StackTop(stack)),
                        indent_stack, state)

\* The pair that ends the first run of pairs measured in flat mode: k pairs before it
\* fit with the item after them, and of it
\*   "ItemTooWide":      the item does not fit flat
\*   "LastItem":         the item fits flat and the fill ends after it
\*   "SeparatorTooWide": the item fits flat, the separator after it does not
\*   "NoNextItem":       the item and the separator fit flat, the fill ends after them
\*   "NextItemTooWide":  the item and the separator fit flat, the next item does not
\*   "LineReached":      the measurer answered fits at a Hard or Empty line inside the
\*                       item or the separator and stopped there
\* m is the measurer after the item.
Deciding(case, k, m) == [case |-> case, k |-> k, m |-> m]

AtFillEnd(m) == QTop(m.queue) # <<>> /\ IsEnd(QTop(m.queue)[1], "Fill")

RECURSIVE DecidingPair(_, _)

DecidingNext(item, next, k) ==
    IF next.fits THEN DecidingPair(next, k + 1) ELSE Deciding("NextItemTooWide", k, item.m)

DecidingSeparator(item, sep, k) ==
    IF ~sep.fits THEN Deciding("SeparatorTooWide", k, item.m)
    ELSE IF ~IsStartEntry(QTop(sep.m.queue))
    THEN Deciding(IF AtFillEnd(sep.m) THEN "NoNextItem" ELSE "LineReached", k, item.m)
    ELSE DecidingNext(item, fill_entry_fits(sep.m, "Flat"), k)

DecidingPair(item, k) ==
    IF ~IsStartEntry(QTop(item.m.queue))
    THEN Deciding(IF AtFillEnd(item.m) THEN "LastItem" ELSE "LineReached", k, item.m)
    ELSE DecidingSeparator(item, fill_entry_fits(item.m, "Flat"), k)

DecidingFirst(first) ==
    IF first.fits THEN DecidingPair(first, 0) ELSE Deciding("ItemTooWide", 0, first.m)

FirstRun == DecidingFirst(fill_entry_fits(FillStartMeasurer, "Flat"))

\* the modes the item and the separator of the deciding pair were printed in
ItemPrinted(d, mode) == entry_modes'[2 * d.k + 1] = mode
SeparatorPrinted(d, mode) == entry_modes'[2 * d.k + 2] = mode

ModesAsStated22(d) ==
    d.case = "SeparatorTooWide" => ItemPrinted(d, "Flat") /\ SeparatorPrinted(d, "Expanded")

\* C22 as the specification states it: in a fill, an item that fits flat whose separator
\* does not fit flat is printed in flat mode, and the separator in expanded mode.
C22_AsStated == [][FillMeasuredAtStart => ModesAsStated22(FirstRun)]_vars

SeparatorFitsExpanded(d) == fill_entry_fits(d.m, "Expanded").fits

\* the must-be-flat measurers of the step, which are those of its fills
FillMeasurements == SelectSeq(measurements', LAMBDA r : r.must_be_flat)

\* The second measurer of the step is the one that measures the separator in expanded
\* mode, from the printer's state after the k flat pairs were printed; the log has its
\* verdict.  With no pair printed before (k = 0) that state is the one the first
\* measurer started from, and the verdict is the one of the measurer after the item.
ModesRemeasured(d) ==
    d.case = "SeparatorTooWide" =>
        /\ SeparatorPrinted(d, "Expanded")
        /\ Len(FillMeasurements) >= 2 /\ FillMeasurements[2].finished
        /\ ItemPrinted(d, IF FillMeasurements[2].fits = "Yes" THEN "Flat" ELSE "Expanded")
        /\ d.k = 0 => (FillMeasurements[2].fits = "Yes") = SeparatorFitsExpanded(d)

\* C22: in a fill, when an item fits flat and its separator does not fit flat, the
\* separator is measured again in expanded mode; the item is printed in flat mode when
\* the separator fits so and in expanded mode when it does not, and the separator is
\* printed in expanded mode.
C22_SeparatorRemeasured == [][FillMeasuredAtStart => ModesRemeasured(FirstRun)]_vars

\* Fill [["x", SoftOrSpace, "x"], [",", SoftOrSpace], ["x", SoftOrSpace, "x"]] at
\* print_width 3: the item fits exactly, the comma fits in no mode, and the item was
\* printed on two lines.
C22_Witness ==
    /\ PrintedDocument(Fill(<<SoftItem(X(1), X(1)), Separator, SoftItem(X(1), X(1))>>))
    /\ options = Options(3, "Space", LF)
    /\ state.buffer = <<"x", "\n", "x", ",", "\n", "x", " ", "x">>

\* the same fill with the line before the comma: the separator fits in expanded mode,
\* the item stays on one line
C22_FlatItemWitness ==
    /\ PrintedDocument(Fill(<<SoftItem(X(1), X(1)), LeadingSeparator, SoftItem(X(1), X(1))>>))
    /\ options = Options(3, "Space", LF)
    /\ state.buffer = <<"x", " ", "x", "\n", ",", "x", "\n", "x">>

ModesAsStated23(d) ==
    d.case \in {"NoNextItem", "NextItemTooWide"} =>
        /\ SeparatorPrinted(d, "Expanded")
        /\ ItemPrinted(d, IF SeparatorFitsExpanded(d) THEN "Flat" ELSE "Expanded")

\* C23 as the specification states it: in a fill, when an item and its separator fit
\* flat and no item follows, or the next item does not fit, the separator is measured in
\* expanded mode and printed so, and the item is printed flat when the separator fits
\* expanded and expanded when it does not.
C23_AsStated == [][FillMeasuredAtStart => ModesAsStated23(FirstRun)]_vars

ModesOfFlatSeparator(d) ==
    /\ d.case = "NoNextItem" =>
           /\ ItemPrinted(d, "Flat") /\ SeparatorPrinted(d, "Flat")
           /\ Len(FillMeasurements) = 1
    /\ d.case = "NextItemTooWide" =>
           /\ ItemPrinted(d, "Flat") /\ SeparatorPrinted(d, "Expanded")
           /\ d.k = 0 => FillMeasurements[2].before.buffer # state.buffer

\* C23: in a fill, when an item and its separator fit flat and no item follows the
\* separator, both are printed in flat mode and the fill is measured once; when the next
\* item does not fit after the flat separator, the item is printed in flat mode and the
\* separator in expanded mode, and the next measurement is the one of the next item,
\* made after the separator was printed.
C23_FlatSeparatorLayouts == [][FillMeasuredAtStart => ModesOfFlatSeparator(FirstRun)]_vars

\* Fill [["x", SoftOrSpace, "x"], [",", SoftOrSpace]] at print_width 4: the separator
\* that ends the fill was printed flat, no line break follows the comma
C23_Witness ==
    /\ PrintedDocument(Fill(<<SoftItem(X(1), X(1)), Separator>>))
    /\ options = Options(4, "Space", LF)
    /\ state.buffer = <<"x", " ", "x", ",">>

\* the fill of two such items at print_width 5: the second item does not fit after the
\* comma, the separator was printed expanded and the items flat
C23_NextItemWitness ==
    /\ PrintedDocument(Fill(<<SoftItem(X(1), X(1)), Separator, SoftItem(X(1), X(1))>>))
    /\ options = Options(5, "Space", LF)
    /\ state.buffer = <<"x", " ", "x", ",", "\n", "x", " ", "x">>

-----------------------------------------------------------------------------
(* The fill that takes the cached verdict (C24)                             *)

\* the main loop is at a StartFill in flat mode with measured_group_fits set
FillShortcutTaken ==
    /\ result = Running /\ queue # <<>>
    /\ IsStart(NextElement, "Fill")
    /\ state.measured_group_fits /\ StackTop(stack) = "Flat"

\* the step pushes the Fill frame in flat mode and does nothing else: no measurer, no
\* call of print_entry, nothing printed
ShortcutStep ==
    /\ result' = Running
    /\ measurements' = <<>>
    /\ entry_modes' = <<>>
    /\ stack' = StackPush(stack, "Fill", "Flat")
    /\ state'.buffer = state.buffer

\* the tags of the document are those of groups, fills and entries, each of which
\* pushes one frame
PlainTags ==
    \A k \in 1..Len(document) :
        document[k].t \in {"Start", "End"} => document[k].kind \in {"Group", "Fill", "Entry"}

\* the number of tags open after document[j]
Depth(j) ==
    Cardinality({k \in 1..j : document[k].t = "Start"})
    - Cardinality({k \in 1..j : document[k].t = "End"})

\* document[j] is in the fill that starts at document[i], its end tag excluded
InFill(i, j) ==
    /\ IsStart(document[i], "Fill")
    /\ i <= j
    /\ \A k \in i..j : Depth(k) >= Depth(i)

\* document[e] is the end tag of the fill that starts at document[i]
FillEndsAt(i, e) ==
    /\ i < e /\ InFill(i, e - 1)
    /\ Depth(e) < Depth(i)

FlatFrame(kind) == [kind |-> kind, mode |-> "Flat"]

\* The main loop stands inside the fill at document[i]: the fill took the cached
\* verdict (the loop of a measured fill consumes the entries in the step of the start
\* tag).  Its frame is on the stack in flat mode, the frame of the entry the loop is in
\* is above it in flat mode, and the step made no measurer of a fill.
InsideCachedFill(i, j) ==
    /\ Len(stack) >= Depth(i) + 1
    /\ stack[Depth(i) + 1] = FlatFrame("Fill")
    /\ Depth(j) > Depth(i) => /\ Len(stack) >= Depth(i) + 2
                              /\ stack[Depth(i) + 2] = FlatFrame("Entry")
    /\ \A k \in 1..Len(measurements) : ~measurements[k].must_be_flat

CachedFillFlat ==
    PlainTags =>
        \A i \in 1..Len(document) :
            IsStart(document[i], "Fill") /\ i < Len(document)
            /\ ~IsEnd(document[i + 1], "Fill") =>
                \A j \in i..Len(document) :
                    /\ InFill(i, j) /\ Processed(j) => InsideCachedFill(i, j)
                    /\ FillEndsAt(i, j) /\ Processed(j) /\ IsEnd(document[j], "Fill") =>
                           Len(stack) = Depth(j) + 1

\* C24: a StartFill reached in flat mode with measured_group_fits set creates no
\* measurer and prints nothing itself, it pushes the Fill frame in flat mode; every item
\* and separator of the fill is then entered by the main loop in flat mode, no step
\* inside the fill measures a fill, and after the end tag of the fill the stack is as
\* deep as it was before its start tag.
C24_FillShortcut ==
    /\ [][FillShortcutTaken => ShortcutStep]_vars
    /\ []CachedFillFlat

\* Group [Fill [["x", SoftOrSpace, "x"], [",", SoftOrSpace], ["x", SoftOrSpace, "x"]]]
\* at print_width 8: the main loop has processed the end tag of the fill, everything is
\* on one line, the frame of the group is on top again
C24_Witness ==
    /\ document = propagate_expands(
                      Group(Fill(<<SoftItem(X(1), X(1)), Separator, SoftItem(X(1), X(1))>>)))
    /\ options = Options(8, "Space", LF)
    /\ Processed(Len(document) - 1)
    /\ state.buffer = <<"x", " ", "x", ",", " ", "x", " ", "x">>
    /\ Last(stack) = FlatFrame("Group") /\ Len(stack) = 2

\* the fill of that document has just taken the cached verdict
C24_ShortcutWitness ==
    /\ document = propagate_expands(
                      Group(Fill(<<SoftItem(X(1), X(1)), Separator, SoftItem(X(1), X(1))>>)))
    /\ options = Options(8, "Space", LF)
    /\ Processed(2)
    /\ Last(stack) = FlatFrame("Fill") /\ measurements = <<>>

-----------------------------------------------------------------------------
(* The assertion of the ItemMaybeFlat layout (C25)                          *)

AssertionFailed == Failed(Panic("assertion failed: measurer.fill_item_fits()?"))

\* C25: the assertion in the ItemMaybeFlat branch of print_fill_entries never fails:
\* once the pairs the first measurement counted as flat are printed in flat mode, the
\* measurement of the item from the printer's state says that it fits.
C25_AssertionHolds == result # AssertionFailed

\* the second measurer of the step was made after a pair was printed flat, and it was
\* finished: its item was found to fit
RemeasuredAfterFlatPairs ==
    /\ element = StartFill /\ result = Running
    /\ Len(measurements) >= 2
    /\ measurements[1].must_be_flat /\ measurements[2].must_be_flat
    /\ measurements[2].finished
    /\ measurements[2].before.buffer = measurements[1].before.buffer \o <<"1", ",">>
    /\ measurements[2].before.pending_space

\* Fill ["1", ",", "2", ",", "3"] at print_width 4: "1, 2" fits and the second comma
\* does not; "1," was printed before item "2" was measured again
C25_Witness ==
    /\ document = propagate_expands(FillOf(Digits))
    /\ options = Options(4, "Space", LF)
    /\ RemeasuredAfterFlatPairs
    /\ measurements[2].fits = "No"
    /\ state.buffer = <<"1", ",", " ", "2", ",", "\n", "3">>

-----------------------------------------------------------------------------
(* HardSpace (C26)                                                          *)

HardSpaces(els) == Cardinality({k \in 1..Len(els) : els[k] = HardSpace})

\* C26 as the specification states it: a HardSpace is never elided, each one in the
\* document is one space character in the output, at the start of a line and before a
\* line break too (the texts of these documents hold no space).
C26_AsStated ==
    result = Ok /\ AtomsOnly(document) => Count(state.buffer, " ") >= HardSpaces(document)

\* [HardSpace, "x", "x"] printed as "xx": the hard space at the start of the line is
\* not in the output
C26_Witness ==
    /\ PrintedDocument(<<HardSpace, Text(X(1)), Text(X(1))>>)
    /\ state.buffer = <<"x", "x">>

\* ["x", HardSpace, Hard line] printed as "x" and a line break: the hard space before
\* the line break is not in the output
C26_TrailingWitness ==
    /\ PrintedDocument(<<Text(X(1)), HardSpace, Line("Hard")>>)
    /\ state.buffer = <<"x">> \o options.line_ending

\* Group [HardSpace, "xxx"] at print_width 3: the measurer charged the hard space and
\* the group was entered expanded, for a line that is 3 columns wide
C26_MeasuredWitness ==
    /\ document = propagate_expands(Group(<<HardSpace, Text(X(MaxTextLen))>>))
    /\ options.print_width = MaxTextLen
    /\ GroupEntered(1)
    /\ StackTop(stack) = "Expanded"

-----------------------------------------------------------------------------
(* Blank lines (C27)                                                        *)

NoNewlineTexts ==
    \A k \in 1..Len(document) :
        document[k].t = "Text" => \A i \in 1..Len(document[k].text) : document[k].text[i] # "\n"

\* the line endings of the output as one character each
Breaks(out) == SelectSeq(out, LAMBDA ch : ch # "\r")

\* three line endings in a row
TripleBreak(out) ==
    \E i \in 1..(Len(out) - 2) : out[i] = "\n" /\ out[i + 1] = "\n" /\ out[i + 2] = "\n"

\* the main loop is at a Line atom of the given mode
LineStep(mode) ==
    /\ result = Running /\ queue # <<>>
    /\ NextElement = Line(mode)
    /\ NoNewlineTexts

\* nothing is written on the current line
LineEmpty == state.buffer = <<>> \/ Last(state.buffer) = "\n"

\* C27: for documents whose texts contain no newline the output never holds more than
\* two line endings in a row; a Hard line reached on an empty line prints nothing, and
\* an Empty line reached right after the blank line of another prints nothing.
C27_AtMostOneBlankLine ==
    /\ [](NoNewlineTexts => ~TripleBreak(Breaks(state.buffer)))
    /\ [][LineStep("Hard") /\ LineEmpty => state'.buffer = state.buffer]_vars
    /\ [][LineStep("Empty") /\ state.has_empty_line => state'.buffer = state.buffer]_vars

\* ["x", Empty, Hard, Empty, "x"]: one blank line between the texts
C27_Witness ==
    /\ PrintedDocument(<<Text(X(1)), Line("Empty"), Line("Hard"), Line("Empty"), Text(X(1))>>)
    /\ options.line_ending = CRLF
    /\ state.buffer = <<"x", "\r", "\n", "\r", "\n", "x">>

-----------------------------------------------------------------------------
(* Newlines (C28)                                                           *)

\* the text as it is written: each newline as the configured line ending
RECURSIVE WithLineEndings(_)
WithLineEndings(text) ==
    IF text = <<>> THEN <<>>
    ELSE (IF Head(text) = "\n" THEN options.line_ending ELSE <<Head(text)>>)
         \o WithLineEndings(Tail(text))

HasNewline(text) == \E i \in 1..Len(text) : text[i] = "\n"

\* the part of the text after its last newline
RECURSIVE AfterLastNewline(_)
AfterLastNewline(text) ==
    IF ~HasNewline(text) THEN text ELSE AfterLastNewline(Tail(text))

\* the characters of an indentation: tabs or indent_width spaces per level, then the
\* alignment in spaces
IndentChars(indent) ==
    (IF options.indent_style = "Tab" THEN Rep("\t", indent.level)
     ELSE Rep(" ", indent.level * options.indent_width))
    \o Rep(" ", indent.align)

\* the main loop prints a text, with no line suffix waiting
TextStep ==
    /\ result = Running /\ queue # <<>>
    /\ NextElement.t = "Text"
    /\ state.line_suffixes = <<>>

\* the text is written after the pending indentation and the pending space, its
\* newlines as line endings; a newline in it leaves line_width at the width of what
\* follows the last one and measured_group_fits cleared
TextWritten ==
    /\ state'.buffer = state.buffer \o IndentChars(state.pending_indent)
                       \o (IF state.pending_space THEN <<" ">> ELSE <<>>)
                       \o WithLineEndings(NextElement.text)
    /\ HasNewline(NextElement.text) =>
           /\ state'.line_width = TextWidth(AfterLastNewline(NextElement.text))
           /\ ~state'.measured_group_fits

\* the main loop is at a Line atom and the step writes something
LineBreakStep ==
    /\ result = Running /\ queue # <<>>
    /\ NextElement.t = "Line"
    /\ state'.buffer # state.buffer

LineBroken ==
    /\ state'.buffer \in {state.buffer \o options.line_ending,
                          state.buffer \o options.line_ending \o options.line_ending}
    /\ state'.line_width = 0
    /\ ~state'.measured_group_fits
    /\ ~state'.pending_space
    /\ state'.pending_indent = Indention(indent_stack')

\* C28: a newline the printer emits, for a Line atom or for a newline character of a
\* text, writes the configured line ending, sets line_width to 0 and clears
\* measured_group_fits; after the newline of a Line atom no space is pending and
\* pending_indent is the current value of the indentation stack, and the next text is
\* written after exactly that indentation.
C28_NewlineResets ==
    /\ [][TextStep => TextWritten]_vars
    /\ [][LineBreakStep => LineBroken]_vars

\* [StartIndent, "x", Hard line, "x", EndIndent] with tabs and CRLF: the second text
\* was written after the line ending and one tab
C28_Witness ==
    /\ document = <<StartIndent, Text(X(1)), Line("Hard"), Text(X(1)), EndIndent>>
    /\ options.indent_style = "Tab"
    /\ Processed(4)
    /\ state.buffer = <<"x", "\n", "\t", "x">>
    /\ state.line_width = options.indent_width + 1

\* Group ["x\ny", SoftOrSpace, "x"] with CRLF endings: the newline of the text was
\* written as CRLF and cleared measured_group_fits, which the group had set
C28_TextWitness ==
    /\ document = propagate_expands(GroupPair(<<"x", "\n", "y">>, X(1)))
    /\ options.line_ending = CRLF
    /\ Processed(2)
    /\ state.buffer = <<"x", "\r", "\n", "y">>
    /\ state.line_width = 1 /\ ~state.measured_group_fits

-----------------------------------------------------------------------------
(* Indention transitions (C29)                                              *)

\* the main loop is at a StartIndent, at a StartAlign
IndentStep == result = Running /\ queue # <<>> /\ IsStart(NextElement, "Indent")
AlignStep == result = Running /\ queue # <<>> /\ IsStart(NextElement, "Align")

Aligned(level, align, align_count) ==
    [level |-> level, align |-> align, align_count |-> align_count]

\* what C29 says increment_level gives
Incremented(ind) ==
    IF ind.align = 0 THEN Level(ind.level + 1)
    ELSE IF options.indent_style = "Tab" THEN Level(ind.level + ind.align_count + 1)
    ELSE Aligned(ind.level + 1, ind.align, ind.align_count)

\* what C29 says set_align(k) gives
AlignSet(ind, k) ==
    IF ind.align = 0 THEN Aligned(ind.level, k, 1)
    ELSE Aligned(ind.level, IF ind.align + k > 255 THEN 255 ELSE ind.align + k,
                 ind.align_count + 1)

C29_SpaceWitness ==
    /\ document = <<StartAlign(1), StartAlign(2), StartIndent, Line("Hard"), Text(X(1)),
                    EndIndent, EndAlign, EndAlign>>
    /\ options.indent_style = "Space"
    /\ Processed(5)
    /\ Indention(indent_stack) = Aligned(1, 3, 2)
    /\ state.buffer = Rep(" ", 5) \o <<"x">>

\* StartAlign(100) inside StartAlign(200): the alignment is 255
C29_SaturationWitness ==
    /\ document = <<StartAlign(200), StartAlign(100), StartIndent, EndIndent, EndAlign,
                    EndAlign>>
    /\ Processed(2)
    /\ Indention(indent_stack) = Aligned(0, 255, 2)

-----------------------------------------------------------------------------
(* The measurer's line-break rule (C30)                                     *)

\* a measurer made from the printer's state, its evaluation context in the given mode,
\* with or without the must-be-flat constraint
MeasurerIn(mode, must_be_flat) ==
    [FitsMeasurerNew(queue, StackPush(stack, "Group", mode), indent_stack, state)
        EXCEPT !.must_be_flat = must_be_flat]

\* the measurement goes on with the measurer m
GoesOn(m) == FitsR(m, "Maybe")

FlatLineRule(m) ==
    /\ fits_element(m, Line("Soft")) = GoesOn(m)
    /\ fits_element(m, Line("SoftOrSpace")) = GoesOn([m EXCEPT !.state.pending_space = TRUE])
    /\ fits_element(m, Line("Hard")).fits = "Yes"
    /\ fits_element(m, Line("Empty")).fits = "Yes"

ExpandedLineRule(m) == \A mode \in LineModes : fits_element(m, Line(mode)).fits = "Yes"

\* C30: in a flat evaluation context the measurer goes on unchanged at a Soft line,
\* goes on with a pending space at a SoftOrSpace line, and answers fits at a Hard or
\* Empty line, under the must-be-flat constraint too; in an expanded evaluation context
\* it answers fits at every line atom.
C30_MeasurerLineRule ==
    \A must_be_flat \in BOOLEAN :
        /\ FlatLineRule(MeasurerIn("Flat", must_be_flat))
        /\ ExpandedLineRule(MeasurerIn("Expanded", must_be_flat))

\* Fill [["x", Hard line], [",", SoftOrSpace], ["x"], ..] at print_width 1: the
\* must-be-flat measurer of the first item reached the Hard line and answered fits
C30_Witness ==
    /\ document = propagate_expands(
                      Fill(<<Entry(<<Text(X(1)), Line("Hard")>>), Separator,
                             Entry(<<Text(X(1))>>), Separator, Entry(<<Text(X(1))>>)>>))
    /\ options.print_width = 1
    /\ element = StartFill /\ result = Running
    /\ measurements[1].must_be_flat /\ measurements[1].fits = "Yes"
    /\ measurements[1].before.buffer = <<>>

-----------------------------------------------------------------------------
(* What the must-be-flat constraint refuses (C31)                          *)

\* the number of characters of a text before its first newline
RECURSIVE BeforeNewline(_)
BeforeNewline(chars) ==
    IF chars = <<>> \/ Head(chars) = "\n" THEN 0 ELSE 1 + BeforeNewline(Tail(chars))

\* the width of the line once the characters before the newline are on it
WidthAtNewline(m, chars) ==
    m.state.line_width + m.state.pending_indent.level * options.indent_width
    + m.state.pending_indent.align + (IF m.state.pending_space THEN 1 ELSE 0)
    + BeforeNewline(chars)

MustBeFlatRule(m) ==
    /\ fits_element(m, ExpandParent).fits = "No"
    /\ \A id \in 0..1 : fits_element(m, StartGroup(id, "Expanded")).fits = "No"
    /\ \A t \in NewlineTexts : fits_element(m, Text(t)).fits = "No"

UnconstrainedRule(m) ==
    /\ fits_element(m, ExpandParent) = GoesOn(m)
    /\ \A t \in NewlineTexts :
           fits_element(m, Text(t)).fits
               = IF WidthAtNewline(m, t) > options.print_width THEN "No" ELSE "Yes"

\* C31: under the must-be-flat constraint the measurer answers does-not-fit at an
\* expand-parent marker, at a Group whose mode hint is Expanded and at a text with a
\* newline; without the constraint it goes on unchanged at the marker and answers a
\* text with a newline by the width up to the newline alone.
C31_MustBeFlatRefuses ==
    \A mode \in {"Flat", "Expanded"} :
        /\ MustBeFlatRule(MeasurerIn(mode, TRUE))
        /\ UnconstrainedRule(MeasurerIn(mode, FALSE))

\* Fill [[Group ["x", Hard line, "x"]], [",", SoftOrSpace], ["x"]] at print_width 10:
\* the must-be-flat measurer of the first item met the expanded Group and refused
C31_Witness ==
    /\ document = propagate_expands(
                      Fill(<<Entry(Group(<<Text(X(1)), Line("Hard"), Text(X(1))>>)),
                             Separator, Entry(<<Text(X(1))>>)>>))
    /\ options.print_width = 10
    /\ element = StartFill /\ result = Running
    /\ measurements[1].must_be_flat /\ measurements[1].fits = "No"

\* Group ["x"], expand-parent marker, "x" at print_width 2: the measurement of the
\* group walked over the marker and answered fits
C31_MarkerWitness ==
    /\ document = propagate_expands(Group(<<Text(X(1))>>) \o <<ExpandParent, Text(X(1))>>)
    /\ options.print_width = 2
    /\ element = StartGroup(0, "Flat") /\ result = Running
    /\ Len(measurements) = 1
    /\ ~measurements[1].must_be_flat /\ measurements[1].fits = "Yes"

-----------------------------------------------------------------------------
(* LineSuffix regions and boundaries in a measurement (C32)                 *)

\* what a LineSuffix region may hold
RegionContents ==
    {<<Text(<<"c">>)>>, <<Text(Barbaz), Line("Hard")>>, <<Interned(<<Text(Barbaz)>>)>>,
     Group(<<Text(Barbaz)>>), Suffix(<<"c">>), <<LineSuffixBoundary, Text(Foo)>>}

\* the measurer with the content of a LineSuffix region and its end tag next in its queue
AtRegion(m, content) == [m EXCEPT !.queue = QExtendBack(@, content \o <<EndLineSuffix>>)]

RegionSkipped(m) ==
    \A content \in RegionContents :
        fits_element(AtRegion(m, content), StartLineSuffix)
            = GoesOn([m EXCEPT !.state.has_line_suffix = TRUE])

BoundaryRule(m) ==
    /\ m.state.has_line_suffix = (state.line_suffixes # <<>>)
    /\ fits_element(m, LineSuffixBoundary).fits
           = IF state.line_suffixes # <<>> THEN "No" ELSE "Maybe"
    /\ state.line_suffixes = <<>> => fits_element(m, LineSuffixBoundary) = GoesOn(m)
    /\ \A content \in RegionContents :
           fits_element(fits_element(AtRegion(m, content), StartLineSuffix).m,
                        LineSuffixBoundary).fits = "No"

\* C32: the measurer skips a LineSuffix region whole, leaving the measured width and
\* everything but the pending-suffix flag as they were; a LineSuffixBoundary answers
\* does-not-fit after a region and when the printer had a suffix pending as the
\* measurement began, and is passed over when no suffix is pending.
C32_SuffixInMeasurement ==
    \A mode \in {"Flat", "Expanded"}, must_be_flat \in BOOLEAN :
        /\ RegionSkipped(MeasurerIn(mode, must_be_flat))
        /\ BoundaryRule(MeasurerIn(mode, must_be_flat))

\* Group ["x", LineSuffix ["c"], boundary, "y"] at print_width 10: the measurement of
\* the group skipped the region, met the boundary and refused
C32_Witness ==
    /\ document = Group(<<Text(X(1))>> \o Suffix(<<"c">>)
                        \o <<LineSuffixBoundary, Text(<<"y">>)>>)
    /\ options.print_width = 10
    /\ element = StartGroup(0, "Flat") /\ result = Running
    /\ Len(measurements) = 1 /\ measurements[1].fits = "No"
    /\ measurements[1].before.line_suffixes = <<>>

\* LineSuffix ["c"], Group ["x", boundary, "y"]: the printer had the suffix pending
\* when the measurement of the group began
C32_PendingWitness ==
    /\ document = Suffix(<<"c">>) \o Group(<<Text(X(1)), LineSuffixBoundary, Text(<<"y">>)>>)
    /\ options.print_width = 10
    /\ element = StartGroup(0, "Flat") /\ result = Running
    /\ Len(measurements) = 1 /\ measurements[1].fits = "No"
    /\ measurements[1].before.line_suffixes # <<>>

\* Group ["x", LineSuffix ["barbaz"], SoftOrSpace, "y"] at print_width 3: the region
\* is wider than the line and the group is measured to fit; and a boundary with no
\* suffix pending is passed over
C32_NoWidthWitness ==
    /\ document \in {Group(<<Text(X(1))>> \o Suffix(Barbaz)
                           \o <<Line("SoftOrSpace"), Text(<<"y">>)>>),
                     Group(<<Text(X(1)), LineSuffixBoundary, Text(<<"y">>)>>)}
    /\ options.print_width = 3
    /\ element = StartGroup(0, "Flat") /\ result = Running
    /\ Len(measurements) = 1 /\ measurements[1].fits = "Yes"

-----------------------------------------------------------------------------
(* The measurer's replay of the indentation tags (C33)                      *)

IndentKinds == {"Indent", "Align", "Dedent", "IndentIfGroupBreaks"}
IndentationTag(el) == el.t \in {"Start", "End"} /\ el.kind \in IndentKinds

\* the main loop is about to print an indentation tag, and prints it without error
IndentationStep ==
    /\ result = Running /\ queue # <<>> /\ IndentationTag(NextElement)
    /\ state.line_suffixes = <<>>
    /\ result' = Running

\* a measurer that starts where the printer stands and measures the next element
MeasuredNext ==
    fits_element(FitsMeasurerNew(QAfterPop(queue), stack, indent_stack, state), NextElement)

\* the measurer ends with the indentions the printer ends with
SameIndentions ==
    /\ MeasuredNext.err = NoErr
    /\ MeasuredNext.m.indent_stack.stack = indent_stack'.stack
    /\ MeasuredNext.m.indent_stack.history = indent_stack'.history
    /\ MeasuredNext.m.stack = stack'

\* C33 as the spec states it: at every start and end tag of an Indent, Align,
\* Dedent(Level), Dedent(Root) and IndentIfGroupBreaks region the measurer changes its
\* indentation as the printer changes its own, the end of a Dedent(Root) region
\* included.
C33_AsStated == [][IndentationStep => SameIndentions]_vars

\* what the code does: the same at every indentation tag but the end of Dedent(Root)
C33_ExceptRootDedentEnd ==
    [][IndentationStep /\ NextElement # EndDedent("Root") => SameIndentions]_vars

\* at the end of a Dedent(Root) region the printer takes the reset indention off and
\* the measurer keeps it
C33_RootDedentEndKept ==
    [][IndentationStep /\ NextElement = EndDedent("Root")
        => /\ indent_stack'.stack = Front(indent_stack.stack)
           /\ MeasuredNext.m.indent_stack.stack = indent_stack.stack
           /\ Indention(MeasuredNext.m.indent_stack) = Level(0)]_vars

\* the printer has closed the Dedent(Root) region of
\* [Indent, Indent, Hard line, "x", Dedent(Root), Hard line, "x", end of Dedent(Root), ..]
\* and is two levels deep again
C33_Witness ==
    /\ element = EndDedent("Root") /\ result = Running
    /\ Indention(indent_stack).level = 2

-----------------------------------------------------------------------------
(* What a measurement leaves of the printer's state (C34)                   *)

\* the scratch containers a measurer borrows and hands back
ScratchFields == {"fits_stack", "fits_queue", "fits_indent_stack", "fits_stack_tem_indent"}

\* the printer state is the same before and after the k-th measurement of this step
\* in every field outside the given ones
Untouched(k, fields) ==
    \A f \in (DOMAIN measurements[k].before) \ fields :
        measurements[k].after[f] = measurements[k].before[f]

\* C34 as the spec states it: a measurement leaves every part of the printer's state
\* but the scratch containers as it was, the mapping of group ids to modes included.
C34_AsStated == \A k \in 1..Len(measurements) : Untouched(k, ScratchFields)

\* what the code does: the mapping of group ids to modes is the one part a measurement
\* writes
C34_AllButGroupModes ==
    \A k \in 1..Len(measurements) : Untouched(k, ScratchFields \cup {"group_modes"})

\* Group ["p", SoftOrSpace, Group#1 [..], ..] at print_width 10: the measurement of the
\* outer group walked into Group#1 and left its mode in the printer's mapping before
\* the printer reached it
C34_Witness ==
    /\ document = propagate_expands(IdGroupEnclosed(X(1)))
    /\ options.print_width = 10
    /\ element = StartGroup(0, "Flat") /\ result = Running
    /\ Len(measurements) = 1
    /\ measurements[1].before.group_modes = <<>>
    /\ get_print_mode(measurements[1].after.group_modes, 1) = "Flat"
    /\ get_print_mode(state.group_modes, 1) = "Flat"

-----------------------------------------------------------------------------
(* Interned content and the content in its place (C35)                      *)

\* the document with the content of every Interned element in its place
RECURSIVE Inlined(_)
InlinedElement(el) ==
    IF el.t = "Interned" THEN Inlined(el.content)
    ELSE IF el.t = "BestFitting"
    THEN <<BestFitting([v \in 1..Len(el.variants) |-> Inlined(el.variants[v])])>>
    ELSE <<el>>
Inlined(els) == IF els = <<>> THEN <<>> ELSE InlinedElement(Head(els)) \o Inlined(Tail(els))

\* the verdicts of the measurers of a run, in the order they were made
Verdicts(log) == [k \in 1..Len(log) |-> <<log[k].must_be_flat, log[k].fits>>]

\* two runs of print give the same text, the same error and the same verdicts
SameRun(a, b) ==
    /\ a.state.buffer = b.state.buffer
    /\ a.err = b.err
    /\ Verdicts(a.log) = Verdicts(b.log)

\* the run the state machine has made is the run of print_with_indent
RunMade(a) ==
    /\ state.buffer = a.state.buffer
    /\ result = IF a.err = NoErr THEN Ok ELSE Failed(a.err)

\* print has returned for a document with interned content
InternedPrinted == result # Running /\ Inlined(document) # document

\* an Interned element is the first element of a variant of a best-fitting element
InternedVariant ==
    \E i \in 1..Len(document) :
        /\ document[i].t = "BestFitting"
        /\ \E v \in 1..Len(document[i].variants) :
               /\ document[i].variants[v] # <<>>
               /\ document[i].variants[v][1].t = "Interned"

\* C35 as the spec states it: for every document with interned content the output,
\* the error and the verdicts of the measurements are those of the document with the
\* content in its place.
C35_AsStated ==
    InternedPrinted
        => /\ RunMade(print_with_indent(document))
           /\ SameRun(print_with_indent(document), print_with_indent(Inlined(document)))

\* C35: when no Interned element stands where a best-fitting variant must start with
\* its Entry tag, the document with interned content gives the output, the error and
\* the verdicts of the measurements of the document with the content in its place.
C35_InternedAsInlined ==
    InternedPrinted /\ ~InternedVariant
        => /\ RunMade(print_with_indent(document))
           /\ SameRun(print_with_indent(document), print_with_indent(Inlined(document)))

\* the variant [Interned [Entry ["a", SoftOrSpace, "y"]]]: print fails with the
\* invalid start tag although the variant with the content in its place is printed
C35_VariantRefused ==
    InternedPrinted /\ InternedVariant
        => /\ result.type = "Err"
           /\ print_with_indent(Inlined(document)).err = NoErr

\* Group ["xxx", Interned [SoftOrSpace, "xxx"]] at print_width 6: the measurement walked
\* through the interned content, the group does not fit and is printed on two lines
C35_Witness ==
    /\ document = Group(<<Text(X(3)), Interned(<<Line("SoftOrSpace"), Text(X(3))>>)>>)
    /\ options.print_width = 6
    /\ result = Ok
    /\ state.buffer = X(3) \o LF \o X(3)

\* Fill [Interned [["x"]], Interned [[",", SoftOrSpace]], [Interned ["x"]]] printed
C35_FillWitness ==
    /\ document = Fill(<<<<Interned(Entry(<<Text(X(1))>>))>>, <<Interned(Separator)>>,
                         Entry(<<Interned(<<Text(X(1))>>)>>)>>)
    /\ options.print_width = 3
    /\ result = Ok
    /\ state.buffer = <<"x", ",", "\n", "x">>

\* the best-fitting element with an interned variant has been refused
C35_VariantWitness == InternedPrinted /\ InternedVariant /\ result.type = "Err"

-----------------------------------------------------------------------------
(* Indentation regions leave the indentation as they found it (C36)         *)

RegionKinds == IndentKinds \cup {"LineSuffix"}

\* the regions left open at the end of the elements, given the open ones; Unmatched
\* when an end tag does not close the region opened last
Unmatched == <<EndTag("Unmatched", "-", 0)>>
RECURSIVE OpenRegions(_, _)
OpenRegions(els, open) ==
    IF open = Unmatched \/ els = <<>> THEN open
    ELSE OpenRegions(Tail(els),
                     IF Head(els).t = "Start" /\ Head(els).kind \in RegionKinds
                     THEN Append(open, Head(els))
                     ELSE IF Head(els).t = "End" /\ Head(els).kind \in RegionKinds
                     THEN IF /\ open # <<>>
                             /\ Head(els) = EndTag(Last(open).kind, Last(open).mode,
                                                   Last(open).id)
                          THEN Front(open) ELSE Unmatched
                     ELSE open)

\* every region of the document is closed, in the variants of best-fitting elements too
RegionsClosed(els) ==
    /\ OpenRegions(Inlined(els), <<>>) = <<>>
    /\ \A i \in 1..Len(Inlined(els)) :
           Inlined(els)[i].t = "BestFitting"
               => \A v \in 1..Len(Inlined(els)[i].variants) :
                      OpenRegions(Inlined(els)[i].variants[v], <<>>) = <<>>

\* one iteration of the main loop on the printer pr
PrintNext(pr) ==
    AfterElement(print_element([pr EXCEPT !.queue = QAfterPop(@)], Head(Last(pr.queue))))

\* the main loop run on from the printer pr until the queue is the given one
RECURSIVE PrintUntil(_, _)
PrintUntil(pr, target) ==
    IF pr.err # NoErr \/ pr.queue = target \/ QIsEmpty(pr.queue) THEN pr
    ELSE PrintUntil(PrintNext(pr), target)

\* the printer as the main loop finds it
Here ==
    [state |-> state, queue |-> queue, stack |-> stack, indent_stack |-> indent_stack,
     err |-> NoErr, log |-> <<>>, shortcuts |-> <<>>, entry_modes |-> <<>>]

\* the indentions in force and the ones a Dedent region took off are the printer's
AsFound(pr) ==
    pr.err = NoErr
        => /\ pr.indent_stack.stack = indent_stack.stack
           /\ pr.indent_stack.history = indent_stack.history

\* the end tag of the region of the given kind the queue stands in: <<>> without one
RECURSIVE RegionEnd(_, _, _)
RegionEnd(q, kind, depth) ==
    IF q = <<>> THEN <<>>
    ELSE IF Head(Last(q)).t = "Interned"
    THEN RegionEnd(QExtendBack(QAfterPop(q), Head(Last(q)).content), kind, depth)
    ELSE IF IsStart(Head(Last(q)), kind) THEN RegionEnd(QAfterPop(q), kind, depth + 1)
    ELSE IF IsEnd(Head(Last(q)), kind)
    THEN IF depth = 1 THEN <<Head(Last(q))>> ELSE RegionEnd(QAfterPop(q), kind, depth - 1)
    ELSE RegionEnd(QAfterPop(q), kind, depth)

\* the next element opens an indentation region that has its end tag, of the same
\* dedent mode and naming the same group
AtRegionStart ==
    /\ result = Running /\ queue # <<>>
    /\ NextElement.t = "Start" /\ NextElement.kind \in IndentKinds
    /\ RegionEnd(QAfterPop(queue), NextElement.kind, 1)
           = <<EndTag(NextElement.kind, NextElement.mode, NextElement.id)>>

\* the next element is a line break or a boundary that flushes the queued LineSuffix
\* regions
AtFlush ==
    /\ result = Running /\ queue # <<>>
    /\ NextElement.t \in {"Line", "LineSuffixBoundary"}
    /\ state.line_suffixes # <<>>

IndentationRestored ==
    /\ AtRegionStart
           => AsFound(PrintUntil(PrintNext(Here),
                                 SkipContent(QAfterPop(queue), NextElement.kind).queue))
    /\ AtFlush => AsFound(PrintUntil(PrintNext(Here), QPush(QAfterPop(queue), NextElement)))
    /\ result = Ok /\ RegionsClosed(document)
           => /\ indent_stack.stack = <<Level(0)>>
              /\ indent_stack.history = <<>>

\* an IndentIfGroupBreaks tag names a group that starts after it
NamesLaterGroup ==
    \E i, j \in 1..Len(document) :
        /\ i < j
        /\ document[i].t \in {"Start", "End"} /\ document[i].kind = "IndentIfGroupBreaks"
        /\ IsStart(document[j], "Group") /\ document[j].id = document[i].id

C36_GroupPrintedBefore == ~NamesLaterGroup => IndentationRestored

C36_RestoredWitness ==
    /\ \E a \in ShortTexts :
           document = GroupWith(1, <<Text(a), Line("SoftOrSpace"), Text(X(1))>>)
                          \o <<StartIndent, Line("Hard"), StartDedent("Root")>>
                          \o GroupPair(X(1), X(MaxTextLen))
                          \o <<EndDedent("Root"), Line("Hard"), Text(<<"y">>), EndIndent>>
    /\ result = Ok
    /\ indent_stack.stack = <<Level(0)>>

-----------------------------------------------------------------------------
(* Space coalescing (C37)                                                   *)

\* a document of groups, line atoms, Space atoms and texts that hold neither a space nor
\* a newline: every space of the output comes from a Space atom or a flat SoftOrSpace
SpaceDocument ==
    \A i \in 1..Len(document) :
        \/ document[i].t \in {"Space", "Line"}
        \/ document[i].t \in {"Start", "End"} /\ document[i].kind = "Group"
        \/ /\ document[i].t = "Text"
           /\ \A k \in 1..Len(document[i].text) : document[i].text[k] \notin {" ", "\n", "\r"}

NoEmptyText == \A i \in 1..Len(document) : document[i].t = "Text" => document[i].text # <<>>

\* no space at the start of a line, none before a line ending or at the end of the
\* output, and no two spaces in a row
SpacesInsideLines(out) ==
    \A i \in 1..Len(out) :
        out[i] = " " =>
            /\ i > 1 /\ out[i - 1] \notin {"\n", " "}
            /\ i < Len(out) /\ out[i + 1] \notin {"\n", "\r"}

\* the document is two texts with nothing but Space and SoftOrSpace atoms between them,
\* inside a group or at the root
IsRun(els) ==
    /\ Len(els) >= 3
    /\ els[1].t = "Text" /\ els[Len(els)].t = "Text"
    /\ \A i \in 2..(Len(els) - 1) : els[i] \in {Space, Line("SoftOrSpace")}
RunDocument ==
    \/ IsRun(document)
    \/ /\ Len(document) >= 5
       /\ document[1] = StartGroup(0, "Flat") /\ document[Len(document)] = EndGroup
       /\ IsRun(SubSeq(document, 2, Len(document) - 1))
FirstText == IF document[1].t = "Text" THEN document[1].text ELSE document[2].text
LastText ==
    IF document[Len(document)].t = "Text" THEN document[Len(document)].text
    ELSE document[Len(document) - 1].text

\* printed on one line, the two texts of a run document have exactly one space between
\* them
OneSpaceBetween ==
    RunDocument /\ (\A i \in 1..Len(state.buffer) : state.buffer[i] # "\n")
        => state.buffer = FirstText \o <<" ">> \o LastText

SpacesCoalesced ==
    result = Ok /\ SpaceDocument => SpacesInsideLines(state.buffer) /\ OneSpaceBetween

C37_LineWitness ==
    /\ document = <<Space, Text(X(1)), Space, Line("Hard"), Space, Text(X(1)), Space>>
    /\ result = Ok
    /\ state.buffer = <<"x", "\n", "x">>
    /\ state.pending_space

\* ["x", Space, empty text]: the output ends with the space; and [empty text, Space,
\* "x"]: no space is printed between the two texts
C37_EmptyTextWitness ==
    /\ result = Ok
    /\ \/ document = <<Text(X(1)), Space, Text(X(0))>> /\ state.buffer = <<"x", " ">>
       \/ document = <<Text(X(0)), Space, Text(X(1))>> /\ state.buffer = <<"x">>

\* ---------------------------------------------------------------------------
\* C38: the module tasks of resolve_modules and pending_module_count
\* ---------------------------------------------------------------------------

\* the outputs of process_path(m) that were sent and not yet received
Sent(m) == {i \in DOMAIN rx_process_output : rx_process_output[i].path = m}

\* the tasks of m that were spawned and whose output is not yet received
InFlight(m) == module_tasks[m] + Cardinality(Sent(m))

\* the outputs of m the graph thread has received
Received(m) == IF m \in DOMAIN graph.modules_by_path THEN 1 ELSE 0

AllInFlight == SumOver(module_tasks, Modules) + Len(rx_process_output)

SpawnedAtMostOnce ==
    \A m \in Modules :
        /\ InFlight(m) + Received(m) <= 1
        /\ InFlight(m) + Received(m) = 1 <=> m \in graph.encountered_paths

PendingCountsInFlight == graph.pending_module_count = AllInFlight

ReceiveLoopRuns == graph.stage = "receive" <=> (graph.stage # "bootstrap" /\ AllInFlight > 0)

\* a task of m is spawned only for a path that was not encountered, which is
\* encountered from then on
SpawnOfNewPath ==
    /\ graph.encountered_paths \subseteq graph'.encountered_paths
    /\ \A m \in Modules :
        module_tasks'[m] > module_tasks[m] =>
            /\ m \notin graph.encountered_paths
            /\ m \in graph'.encountered_paths
            /\ module_tasks'[m] = module_tasks[m] + 1

\* C38: process_path is spawned at most once for a path over the whole run,
\* for the entries and the dependencies of every group; pending_module_count
\* is at every moment the number of spawned module tasks whose output the
\* graph thread has not received; and the receive loop of a group is running
\* exactly as long as a task of the group has not delivered its output.
C38_SpawnedOncePendingExact ==
    /\ [](SpawnedAtMostOnce /\ PendingCountsInFlight /\ ReceiveLoopRuns)
    /\ [][SpawnOfNewPath]_vars

\* the last group does not spawn the entry 1 again: the first group processed
\* it as a dependency of two modules, the entry 5 and the module 0
C38_Witness ==
    /\ graph.stage = "populate" /\ graph.group_start = NumPaths
    /\ graph.module_paths_and_resolved_requests = <<>>
    /\ files.requests[NumPaths] = {0, 1} /\ files.requests[0] = {1}
    /\ \A m \in Modules : files.kind[m] = "ok"
    /\ DOMAIN graph.modules_by_path = Modules
    /\ graph.pending_module_count = 0 /\ AllInFlight = 0

\* three tasks are counted: one not yet run, one whose output is in the
\* channel, and the dependency that the received output of the entry 5 spawned
C38_InFlightWitness ==
    /\ graph.stage = "receive" /\ graph.pending_module_count = 3
    /\ NumPaths \in DOMAIN graph.modules_by_path
    /\ module_tasks[0] = 1 /\ Len(rx_process_output) = 1
    /\ SumOver(module_tasks, Modules) = 2

\* ---------------------------------------------------------------------------
\* C39: the lookups of the loaded_modules population
\* ---------------------------------------------------------------------------

\* let records = &modules_by_path[&path] and the assert_eq! on the lengths
ItemIsKeyed(item) ==
    /\ item[1] \in DOMAIN graph.modules_by_path
    /\ Len(graph.modules_by_path[item[1]]) = Len(item[2])

\* modules_by_path[&request.resolved_requested_path] of every request
RequestsAreKeyed(item) ==
    \A k \in DOMAIN item[2] : item[2][k] \subseteq DOMAIN graph.modules_by_path

\* C39: when the loaded_modules are populated at the end of a group, every
\* path of module_paths_and_resolved_requests and every resolved requested
\* path is a key of modules_by_path, and a path has as many stored records as
\* request lists: neither the indexing of the map nor the assert_eq! fails, in
\* any interleaving of the module tasks and for any import graph, cyclic ones
\* and ones with a file that cannot be read or parsed included.
C39_PopulationIsKeyed ==
    graph.stage = "populate" =>
        \A i \in DOMAIN graph.module_paths_and_resolved_requests :
            LET item == graph.module_paths_and_resolved_requests[i]
            IN  ItemIsKeyed(item) /\ RequestsAreKeyed(item)

\* the population starts with the entry 5, which imports the module 0 that
\* imports it back and the entry 1 that cannot be read: the entry 1 is a key
\* without a record
C39_Witness ==
    /\ graph.stage = "populate"
    /\ graph.module_paths_and_resolved_requests # <<>>
    /\ graph.module_paths_and_resolved_requests[1] = <<NumPaths, <<{0, 1}>>>>
    /\ files.requests[0] = {NumPaths} /\ files.kind[1] = "unreadable"
    /\ graph.modules_by_path[1] = <<>> /\ graph.modules_by_path[0] = <<0>>

\* a file that does not parse has neither a record nor a request list
C39_SyntaxErrorWitness ==
    /\ graph.stage = "populate"
    /\ files.kind[NumPaths] = "syntax_error" /\ files.requests[NumPaths] # {}
    /\ \E i \in DOMAIN graph.module_paths_and_resolved_requests :
         graph.module_paths_and_resolved_requests[i] = <<NumPaths, <<>>>>
    /\ graph.modules_by_path[NumPaths] = <<>>

\* ---------------------------------------------------------------------------
\* C40: the fast paths of parse_int for literals without separators
\* ---------------------------------------------------------------------------

MaxFastLen(kind) ==
    CASE kind = "Decimal" -> MAX_FAST_DECIMAL_LEN
      [] kind = "Binary" -> MAX_FAST_BINARY_LEN
      [] kind = "Octal" -> MAX_FAST_OCTAL_LEN
      [] OTHER -> MAX_FAST_HEX_LEN

ParsedWithoutSeparator == parsed # NotParsed /\ ~literal.has_sep

OnFastPath(l) == Len(Body(l)) <= MaxFastLen(l.kind)

\* the u64 result of the fast path, before the cast to f64
FastResult(l) ==
    IF l.kind = "Decimal"
    THEN DecimalFallthrough[l.s, Len(l.s), <<>>, l.debug_assertions]
    ELSE ShiftLoop[Body(l), Radix(l.kind), <<>>, FALSE, l.debug_assertions]

\* what the slow path of the kind gives
SlowResult(l) ==
    IF l.kind = "Decimal" THEN parse_decimal_slow(l.s, l.debug_assertions)
    ELSE MulAddLoop[Body(l), Radix(l.kind), <<>>, FALSE, l.debug_assertions]

\* C40, as stated: without separators, a decimal literal of 1 to 19 digits, a
\* binary one of up to 64, an octal one of up to 21 and a hex one of up to 16
\* digits never overflow the u64 result, and parse_int returns exactly the
\* integer the digits denote.
C40_AsStated ==
    ParsedWithoutSeparator /\ OnFastPath(literal)
        => /\ FastResult(literal) = Value(LiteralValue(literal))
           /\ parsed = Value(LiteralValue(literal))

\* C40, what holds of it: on the fast paths the u64 result is exactly the
\* integer the digits denote (no overflow, in either build), and parse_int
\* returns this integer cast to f64: the integer itself when an f64 holds it,
\* as every integer below 2^53, and else the nearest f64, a tie going to the
\* even one.  A longer literal takes the slow path of its kind.
C40_FastPathsExactThenCast ==
    ParsedWithoutSeparator =>
        IF OnFastPath(literal)
        THEN /\ FastResult(literal) = Value(LiteralValue(literal))
             /\ parsed = Value(as_f64[LiteralValue(literal)])
             /\ BitLength(LiteralValue(literal)) <= F64_MANTISSA_DIGITS
                    => parsed = Value(LiteralValue(literal))
        ELSE parsed = SlowResult(literal)

\* nineteen nines: the u64 result uses its 64 bits and is the integer, and
\* parse_int returns 10^19
C40_Witness ==
    /\ literal.kind = "Decimal" /\ literal.s = Repeated("9", MAX_FAST_DECIMAL_LEN)
    /\ ~literal.has_sep
    /\ FastResult(literal) = Value(<<65535, 35303, 8964, 35527>>)
    /\ BitLength(LiteralValue(literal)) = U64_BITS
    /\ parsed = Value(<<0, 35304, 8964, 35527>>)

\* 9007199254740993 is 2^53 + 1: parse_int returns 2^53
C40_RoundedWitness ==
    /\ literal.kind = "Decimal" /\ ~literal.has_sep
    /\ literal.s = <<"9", "0", "0", "7", "1", "9", "9", "2", "5", "4", "7", "4", "0", "9", "9", "3">>
    /\ FastResult(literal) = Value(Sum(<<0, 0, 0, 32>>, Num[1]))
    /\ parsed = Value(<<0, 0, 0, 32>>)

\* sixty-four binary ones fill the u64 result; sixty-five take the slow path,
\* where the fast loop would have lost the first digit
C40_BinaryWitness ==
    /\ literal.kind = "Binary" /\ ~literal.has_sep /\ parsed # NotParsed
    /\ Body(literal) = Repeated("1", MAX_FAST_BINARY_LEN)
    /\ FastResult(literal) = Value(Repeated(Base - 1, U64_BITS \div DigitBits))
    /\ parsed = Value(ShiftedLeft(Num[1], U64_BITS))

C40_SlowPathWitness ==
    /\ literal.kind = "Binary" /\ ~literal.has_sep
    /\ Body(literal) = Repeated("1", MAX_FAST_BINARY_LEN + 1)
    /\ parsed = Value(ShiftedLeft(Num[1], U64_BITS + 1))
    /\ ResultAsF64(FastResult(literal)) = Value(ShiftedLeft(Num[1], U64_BITS))

====
